---- MODULE Spec2Model ----
(***************************************************************************)
(* A model of the Zabbix datasource:                                       *)
(*   - the backend session manager and query cache                         *)
(*     (ZabbixAPIQuery / ZabbixRequest / zabbixAPIRequest, Go);            *)
(*   - the frontend panel query and its function pipeline                  *)
(*     (query / applyDataProcessingFunctions, JavaScript);                 *)
(*   - the frontend request transport (ZabbixAPIService.request).          *)
(* Each part has its own next-state relation and specification; the parts  *)
(* share one Init and leave each other's variables unchanged.              *)
(***************************************************************************)
EXTENDS Integers, Sequences, FiniteSets, TLC

(***************************************************************************)
(* Bounds of the model.                                                    *)
(***************************************************************************)
\* Calls of ZabbixAPIQuery started in one behaviour (all goroutines together).
MaxCalls == 3
\* The clock runs from 0 to MaxTime minutes, in steps of TickStep minutes.
MaxTime == 15
TickStep == 6
\* Entries of target.functions in a pipeline input.
MaxFuncs == 4
\* Targets of one panel query.
MaxTargets == 2
\* Entities in a list handed to a filter function.
MaxEntities == 3
\* Length of the queries given to metricFindQuery.
MaxQueryLen == 5

(***************************************************************************)
(* Backend (Go): values.                                                   *)
(***************************************************************************)
\* Goroutines serving requests on one ZabbixDatasource instance.
Procs == {"g1", "g2"}

\* The nil error and the nil *simplejson.Json.
Nil == "<nil>"

\* Requests (tsdbReq): two well-formed ones, one without queries, one whose
\* first query holds malformed ModelJson.
Requests == {"reqA", "reqB", "reqEmpty", "reqBadJson"}

Queries(req) ==
  CASE req = "reqEmpty"   -> "none"
    [] req = "reqBadJson" -> "badjson"
    [] OTHER              -> "ok"

\* Tokens user.login can answer with; "" is what MustString makes of a result
\* that is not a string.
LoginResults == {"a0b1c2", "d3e4f5", ""}

\* Results the protected method can answer with.
Results == {"r1", "r2"}

\* An API error reply {error: {message, data}}. A missing or non-string data
\* field reads as "" (MustString).
ApiError(m, d) == [kind |-> "error", message |-> m, data |-> d, value |-> Nil]
ApiResult(v) == [kind |-> "result", message |-> "", data |-> "", value |-> v]
HttpFailure(k) == [kind |-> k, message |-> "", data |-> "", value |-> Nil]

\* The messages the session manager is meant to react to.
NotAuthorizedMessages ==
  {"Session terminated, re-login, please.", "Not authorised.", "Not authorized."}

\* What the HTTP exchange of a protected call can come to: a failed exchange,
\* a non-200 status, an unparsable body, an API error, a result.
ErrorReplies ==
  { ApiError("Not authorised.", ""),
    ApiError("Not", "authorised."),
    ApiError("Invalid params.", "Not authorised.") }

Replies ==
  {HttpFailure("transport"), HttpFailure("status"), HttpFailure("badjson")}
  \cup ErrorReplies
  \cup {ApiResult(v) : v \in Results}

\* What user.login can come to; "config" is loginWithDs failing on the
\* datasource settings before anything is sent.
LoginReplies ==
  {HttpFailure("transport"), HttpFailure("config"),
   ApiError("Invalid params.", "Login name or password is incorrect.")}
  \cup {ApiResult(t) : t \in LoginResults}

\* NewCache(10*time.Minute, 10*time.Minute): entries live 10 minutes.
DefaultExpiration == 10

\* for attempt := 0; attempt <= 3; attempt++
MaxAttempt == 3

VARIABLES
  \* ---- backend (Go) ----
  authToken,    \* ds.authToken
  queryCache,   \* ds.queryCache: key -> [present, value, expiration]
  now,          \* wall clock, minutes
  calls,        \* ZabbixAPIQuery calls started so far
  pc,           \* where each goroutine is
  req,          \* the request each goroutine serves
  attempt,      \* ZabbixRequest's loop counter
  ret,          \* what ZabbixAPIQuery returned
  \* history of the call in progress
  hit,          \* the call was served from the cache
  fresh,        \* at its start an earlier fetch of the key was within the TTL
  sends,        \* times the protected method was sent
  logins,       \* user.login requests sent
  sentAuth,     \* auth sent with the last protected call
  err,          \* ZabbixRequest's err
  relogins,     \* user.login requests sent since the last reply
  lastRet,      \* per key: what the last fetching call returned
  lastDoneAt,   \* per key: when the last fetching call returned (-1: never)
  tokenGen,     \* which token ds.authToken holds: successful user.login calls since
                \* the datasource was last idle
  sentGen,      \* tokenGen when the last protected call was sent
  \* ---- frontend: function pipeline ----
  pApplied,     \* applyDataProcessingFunctions has run
  pTarget,      \* the target whose functions were applied
  pInput,       \* timeseries_data handed to applyDataProcessingFunctions
  pOutput,      \* what it returned
  pLog,         \* the functions it applied, in the order it applied them
  \* ---- frontend: panel query ----
  qState,       \* the promise query returned: idle, pending, resolved, rejected; thrown
  qTargets,     \* options.targets
  qOpts,        \* options (range, maxDataPoints, interval) and the trends setting
  tState,       \* per target: none, skipped, items, fetch, resolved, rejected
  tFetch,       \* per target: the from, to and kind of its fetch
  tItems,       \* per target: number of items resolved
  tSeries,      \* per target: the series its pipeline resolved with
  qData,        \* data of the resolved query
  qError,       \* index of the target whose error rejected the query
  qFirst,       \* the target whose pipeline settled first (0: none yet)
  \* ---- frontend: ZabbixAPIService.request ----
  sHttp,        \* per call: none, inflight, replied, or how the HTTP call failed
  sAuth,        \* per call: the auth argument
  sSent,        \* per call: what of requestOptions depends on the arguments
  sReply,       \* per call: the response the then-callback received
  sDeferred,    \* per call: the deferred behind the returned promise
  sCalls,       \* per call: the reject / resolve calls made on the deferred
  \* ---- backend: query resolver (GetItems) ----
  rPc,          \* the request GetItems awaits: idle, groups1, hosts1, groups2, hosts2,
                \* apps, items; done
  rArgs,        \* the arguments of GetItems
  rRequest,     \* the request awaited
  rHostIds,     \* hostids of GetItems
  rLog,         \* the requests issued, in order
  rReplies,     \* how they returned, in order
  rRet,         \* what GetItems returned
  \* ---- backend: a filter function on its own ----
  fLevel,       \* which of the four was applied (none: not yet)
  fItems,       \* its items
  fFilter,      \* its filter
  fOut,         \* what it returned
  \* ---- backend: TestConnection ----
  cPc,          \* where TestConnection is: idle, login, version, done
  cLog,         \* the exchanges of the test in progress, in order
  cOut,         \* what TestConnection returned
  cCalls,       \* connection tests started so far
  \* ---- frontend: metricFindQuery ----
  mQuery,       \* the query, a string as its characters
  mCall,        \* the call metricFindQuery made on this.zabbix
  mOut,         \* what its promise resolved with
  \* ---- backend: GetAllItems on its own ----
  iMode,        \* the mode of the target the items are resolved for (-1: none)
  iType,        \* itemtype
  iRequest,     \* the request GetAllItems sent
  iRet,         \* what GetAllItems returned
  \* ---- frontend: annotationQuery ----
  aPc,          \* where annotationQuery is: idle, triggers, events, done, threw
  aAnnotation,  \* options.annotation
  aFetched,     \* the triggers getTriggers resolved with
  aObjectIds,   \* the objectids given to getEvents
  aValue,       \* the event values given to getEvents
  aEvents,      \* the events getEvents resolved with
  aOut,         \* the annotations returned
  \* ---- frontend: query and the caller's targets ----
  kPc,          \* idle, returned, thrown
  kBefore,      \* options.targets as the caller passed them
  kAfter,       \* the caller's options.targets after query
  kWorked       \* the targets query worked on

goVars == <<authToken, queryCache, now, calls, pc, req, attempt, ret, hit, fresh,
            sends, logins, sentAuth, err, relogins, lastRet, lastDoneAt, tokenGen, sentGen>>

pipeVars == <<pApplied, pTarget, pInput, pOutput, pLog>>

queryVars == <<qState, qTargets, qOpts, tState, tFetch, tItems, tSeries, qData, qError, qFirst>>

transportVars == <<sHttp, sAuth, sSent, sReply, sDeferred, sCalls>>

resolverVars == <<rPc, rArgs, rRequest, rHostIds, rLog, rReplies, rRet>>

filterVars == <<fLevel, fItems, fFilter, fOut>>

testVars == <<cPc, cLog, cOut, cCalls>>

findVars == <<mQuery, mCall, mOut>>

itemVars == <<iMode, iType, iRequest, iRet>>

annotationVars == <<aPc, aAnnotation, aFetched, aObjectIds, aValue, aEvents, aOut>>

cloneVars == <<kPc, kBefore, kAfter, kWorked>>

vars == <<goVars, pipeVars, queryVars, transportVars, resolverVars, filterVars, testVars,
          findVars, itemVars, annotationVars, cloneVars>>

(***************************************************************************)
(* Backend: pure functions.                                                *)
(***************************************************************************)
\* A test that takes every error for a not-authorized one.
isNotAuthorized_AnyError(message) == TRUE

isNotAuthorized(message) ==
  \/ message = "Session terminated, re-login, please."
  \/ message = "Not authorised."
  \/ message = "Not authorized."

\* makeHTTPRequest: the body, or the error of the exchange.
makeHTTPRequest(reply) ==
  CASE reply.kind = "transport" -> [body |-> Nil, err |-> "Post: dial tcp: connection refused"]
    [] reply.kind = "status"    -> [body |-> Nil, err |-> "invalid status code. status: 500 Internal Server Error"]
    [] OTHER                    -> [body |-> reply, err |-> Nil]

\* handleAPIResult: fmt.Sprintf("%s %s", message, data) on an error object.
handleAPIResult(response) ==
  CASE response.kind = "badjson" -> [result |-> Nil, err |-> "invalid character '<' looking for beginning of value"]
    [] response.kind = "error"   -> [result |-> Nil, err |-> response.message \o " " \o response.data]
    [] OTHER                     -> [result |-> response.value, err |-> Nil]

\* zabbixAPIRequest: apiRequest["auth"] is set if auth != "".
HasAuthField(auth) == auth # ""

\* zabbixAPIRequest, from the reply of its HTTP exchange on.
zabbixAPIRequest(reply) ==
  LET r == makeHTTPRequest(reply)
  IN  IF r.err # Nil THEN [result |-> Nil, err |-> r.err]
      ELSE handleAPIResult(r.body)

\* A login that hands back a token although it failed.
loginWithDs_TokenOnError(reply) ==
  IF reply.kind = "config"
  THEN [auth |-> "a0b1c2", err |-> "unexpected end of JSON input"]
  ELSE LET r == zabbixAPIRequest(reply)
       IN  IF r.err # Nil THEN [auth |-> "a0b1c2", err |-> r.err]
           ELSE [auth |-> r.result, err |-> Nil]

\* loginWithDs / login: (auth, err).
loginWithDs(reply) ==
  IF reply.kind = "config"
  THEN [auth |-> "", err |-> "unexpected end of JSON input"]
  ELSE LET r == zabbixAPIRequest(reply)
       IN  IF r.err # Nil THEN [auth |-> "", err |-> r.err]
           ELSE [auth |-> r.result, err |-> Nil]

\* A loop that allows one attempt more.
LoopContinues_OneMore(a) == a <= MaxAttempt + 1

\* The loop condition of ZabbixRequest.
LoopContinues(a) == a <= MaxAttempt

\* The cache (NewCache, Get, Set): an entry is served until its expiration
\* has passed.
NoEntry == [present |-> FALSE, value |-> Nil, expiration |-> 0]

CacheGet(c, key, t) ==
  IF c[key].present /\ ~(t > c[key].expiration)
  THEN [value |-> c[key].value, found |-> TRUE]
  ELSE [value |-> Nil, found |-> FALSE]

CacheSet(c, key, value, t) ==
  [c EXCEPT ![key] = [present |-> TRUE, value |-> value, expiration |-> t + DefaultExpiration]]

\* Return values of ZabbixAPIQuery.
NoRet == [kind |-> "none", value |-> ""]
Response(v) == [kind |-> "response", value |-> v]
Failure(msg) == [kind |-> "error", value |-> msg]
\* result.(*simplejson.Json).MarshalJSON() on a nil *Json.
NilDeref == [kind |-> "panic", value |-> "nil pointer dereference"]

InRequest(p) == pc[p] \in {"loop", "login", "call", "wait"}

(***************************************************************************)
(* Backend: initial state.                                                 *)
(***************************************************************************)
InitGo ==
  /\ authToken = ""
  /\ queryCache = [k \in Requests |-> NoEntry]
  /\ now = 0
  /\ calls = 0
  /\ pc = [p \in Procs |-> "idle"]
  /\ req = [p \in Procs |-> "reqA"]
  /\ attempt = [p \in Procs |-> 0]
  /\ ret = [p \in Procs |-> NoRet]
  /\ hit = [p \in Procs |-> FALSE]
  /\ fresh = [p \in Procs |-> FALSE]
  /\ sends = [p \in Procs |-> 0]
  /\ logins = [p \in Procs |-> 0]
  /\ sentAuth = [p \in Procs |-> ""]
  /\ err = [p \in Procs |-> Nil]
  /\ relogins = [p \in Procs |-> 0]
  /\ lastRet = [k \in Requests |-> NoRet]
  /\ lastDoneAt = [k \in Requests |-> -1]
  /\ tokenGen = 0
  /\ sentGen = [p \in Procs |-> 0]

(***************************************************************************)
(* Backend: actions.                                                       *)
(***************************************************************************)
\* ZabbixAPIQuery, from the return of ZabbixRequest on: the result is stored
\* in the cache whatever err is, then err decides what is returned.
Finish(p, result, e) ==
  /\ queryCache' = CacheSet(queryCache, req[p], result, now)
  /\ ret' = [ret EXCEPT ![p] = IF e # Nil
                                THEN Failure("ZabbixAPIQuery is not implemented yet")
                                ELSE Response(result)]
  /\ lastRet' = [lastRet EXCEPT ![req[p]] = ret'[p]]
  /\ lastDoneAt' = [lastDoneAt EXCEPT ![req[p]] = now]
  /\ pc' = [pc EXCEPT ![p] = "done"]
  /\ sentGen' = [sentGen EXCEPT ![p] = 0]
  /\ tokenGen' = IF \A q \in Procs \ {p} : ~InRequest(q) THEN 0 ELSE tokenGen

\* ZabbixAPIQuery up to the call of ZabbixRequest.
APIQueryStart(p, r) ==
  /\ pc[p] \in {"idle", "done"}
  /\ calls < MaxCalls
  /\ calls' = calls + 1
  /\ req' = [req EXCEPT ![p] = r]
  /\ attempt' = [attempt EXCEPT ![p] = 0]
  /\ sends' = [sends EXCEPT ![p] = 0]
  /\ logins' = [logins EXCEPT ![p] = 0]
  /\ relogins' = [relogins EXCEPT ![p] = 0]
  /\ sentAuth' = [sentAuth EXCEPT ![p] = ""]
  /\ err' = [err EXCEPT ![p] = Nil]
  /\ fresh' = [fresh EXCEPT ![p] = lastDoneAt[r] >= 0 /\ now <= lastDoneAt[r] + DefaultExpiration]
  /\ LET got == CacheGet(queryCache, r, now)
     IN  /\ hit' = [hit EXCEPT ![p] = got.found]
         /\ IF got.found
            THEN /\ ret' = [ret EXCEPT ![p] = IF got.value = Nil THEN NilDeref
                                               ELSE Response(got.value)]
                 /\ pc' = [pc EXCEPT ![p] = "done"]
            ELSE IF Queries(r) = "badjson"
            THEN /\ ret' = [ret EXCEPT ![p] = Failure("invalid character")]
                 /\ pc' = [pc EXCEPT ![p] = "done"]
            ELSE IF Queries(r) = "none"
            THEN /\ ret' = [ret EXCEPT ![p] = Failure("At least one query should be provided")]
                 /\ pc' = [pc EXCEPT ![p] = "done"]
            ELSE /\ ret' = [ret EXCEPT ![p] = NoRet]
                 /\ pc' = [pc EXCEPT ![p] = "loop"]
  /\ UNCHANGED <<authToken, queryCache, now, lastRet, lastDoneAt, tokenGen, sentGen>>

\* ZabbixRequest: the head of one iteration, if ds.authToken == "".
LoopCheck(p) ==
  /\ pc[p] = "loop"
  /\ pc' = [pc EXCEPT ![p] = IF authToken = "" THEN "login" ELSE "call"]
  /\ UNCHANGED <<authToken, queryCache, now, calls, req, attempt, ret, hit, fresh,
                 sends, logins, sentAuth, err, relogins, lastRet, lastDoneAt, tokenGen, sentGen>>

\* ds.authToken, err = ds.loginWithDs(ctx, dsInfo), with the reply to user.login.
LoginReply(p, reply) ==
  /\ pc[p] = "login"
  /\ LET l == loginWithDs(reply)
         sent == IF reply.kind = "config" THEN 0 ELSE 1
     IN  /\ authToken' = l.auth
         /\ logins' = [logins EXCEPT ![p] = @ + sent]
         /\ relogins' = [relogins EXCEPT ![p] = @ + sent]
         /\ err' = [err EXCEPT ![p] = l.err]
         /\ IF l.err # Nil
            THEN /\ Finish(p, Nil, l.err)
            ELSE /\ pc' = [pc EXCEPT ![p] = "call"]
                 /\ tokenGen' = tokenGen + 1
                 /\ UNCHANGED <<queryCache, ret, lastRet, lastDoneAt, sentGen>>
  /\ UNCHANGED <<now, calls, req, attempt, hit, fresh, sends, sentAuth>>

\* ds.zabbixAPIRequest(ctx, zabbixURL, method, params, ds.authToken): the send.
CallSend(p) ==
  /\ pc[p] = "call"
  /\ sentAuth' = [sentAuth EXCEPT ![p] = authToken]
  /\ sentGen' = [sentGen EXCEPT ![p] = tokenGen]
  /\ sends' = [sends EXCEPT ![p] = @ + 1]
  /\ relogins' = [relogins EXCEPT ![p] = 0]
  /\ pc' = [pc EXCEPT ![p] = "wait"]
  /\ UNCHANGED <<authToken, queryCache, now, calls, req, attempt, ret, hit, fresh,
                 logins, err, lastRet, lastDoneAt, tokenGen>>

\* The reply to the protected call, to the end of the iteration.
CallReply(p, reply) ==
  /\ pc[p] = "wait"
  /\ LET r == zabbixAPIRequest(reply)
     IN  /\ err' = [err EXCEPT ![p] = r.err]
         /\ IF r.err = Nil \/ (r.err # Nil /\ ~isNotAuthorized(r.err))
            THEN /\ Finish(p, r.result, r.err)
                 /\ UNCHANGED <<authToken, attempt>>
            ELSE /\ authToken' = ""
                 /\ attempt' = [attempt EXCEPT ![p] = @ + 1]
                 /\ IF LoopContinues(attempt'[p])
                    THEN /\ pc' = [pc EXCEPT ![p] = "loop"]
                         /\ UNCHANGED <<queryCache, ret, lastRet, lastDoneAt,
                                        tokenGen, sentGen>>
                    ELSE Finish(p, r.result, r.err)
  /\ UNCHANGED <<now, calls, req, hit, fresh, sends, logins, sentAuth, relogins>>

\* Time passes.
Tick ==
  /\ now + TickStep <= MaxTime
  /\ now' = now + TickStep
  /\ UNCHANGED <<authToken, queryCache, calls, pc, req, attempt, ret, hit, fresh,
                 sends, logins, sentAuth, err, relogins, lastRet, lastDoneAt, tokenGen, sentGen>>

\* One goroutine serving requests one after the other: every request, every
\* reply, time passing.
NextSession ==
  \/ \E r \in Requests : APIQueryStart("g1", r)
  \/ LoopCheck("g1")
  \/ \E reply \in LoginReplies : LoginReply("g1", reply)
  \/ CallSend("g1")
  \/ \E reply \in Replies : CallReply("g1", reply)
  \/ Tick

\* Two goroutines serving requests on one key concurrently, time passing.
CacheReplies ==
  {HttpFailure("status"), ApiError("Not", "authorised.")} \cup {ApiResult(v) : v \in Results}

CacheLoginReplies == {HttpFailure("transport"), ApiResult("a0b1c2")}

NextCache ==
  \/ \E p \in Procs, r \in {"reqA", "reqEmpty", "reqBadJson"} : APIQueryStart(p, r)
  \/ \E p \in Procs : LoopCheck(p)
  \/ \E p \in Procs, reply \in CacheLoginReplies : LoginReply(p, reply)
  \/ \E p \in Procs : CallSend(p)
  \/ \E p \in Procs, reply \in CacheReplies : CallReply(p, reply)
  \/ Tick

(***************************************************************************)
(* Frontend (JavaScript): the function pipeline.                           *)
(***************************************************************************)
\* One entry of target.functions: def.name, params[0] (a number or a string)
\* and the text shown in the editor.
Func(name, num, str, text) == [name |-> name, num |-> num, str |-> str, text |-> text]

\* metricFunctions.getCategories(): the category each function name is
\* registered under ("none": registered nowhere).
Category(name) ==
  CASE name = "timeShift"           -> "Time"
    [] name \in {"scale", "offset"} -> "Transform"
    [] name = "top"                 -> "Filter"
    [] name \in {"sumSeries", "average"} -> "Aggregate"
    [] name = "setAlias"            -> "Alias"
    [] name = "trendValue"          -> "Trends"
    [] OTHER                        -> "none"

\* Datapoints are sequences of <<value, timestamp in ms>>.
scale(factor, datapoints) ==
  [i \in 1..Len(datapoints) |-> <<datapoints[i][1] * factor, datapoints[i][2]>>]

offset(delta, datapoints) ==
  [i \in 1..Len(datapoints) |-> <<datapoints[i][1] + delta, datapoints[i][2]>>]

RECURSIVE SumValues(_)
SumValues(datapoints) ==
  IF datapoints = <<>> THEN 0 ELSE datapoints[1][1] + SumValues(Tail(datapoints))

\* Index of the series with the largest sum of values (the first of them).
RECURSIVE BestIndex(_, _, _)
BestIndex(series, i, best) ==
  IF i > Len(series) THEN best
  ELSE BestIndex(series, i + 1,
                 IF SumValues(series[i].datapoints) > SumValues(series[best].datapoints)
                 THEN i ELSE best)

RemoveAt(seq, i) == [j \in 1..(Len(seq) - 1) |-> IF j < i THEN seq[j] ELSE seq[j + 1]]

\* top(n): the n series with the largest values, largest first.
RECURSIVE top(_, _)
top(n, series) ==
  IF n = 0 \/ series = <<>> THEN <<>>
  ELSE LET b == BestIndex(series, 1, 1)
       IN  <<series[b]>> \o top(n - 1, RemoveAt(series, b))

\* sumSeries: the sum of the series at each timestamp (series on one grid).
RECURSIVE sumSeries(_)
sumSeries(pointArrays) ==
  IF pointArrays = <<>> THEN <<>>
  ELSE IF Len(pointArrays) = 1 THEN pointArrays[1]
  ELSE LET rest == sumSeries(Tail(pointArrays))
           first == pointArrays[1]
       IN  [i \in 1..Len(first) |-> <<first[i][1] + rest[i][1], first[i][2]>>]

\* average: the mean of the series at each timestamp (series on one grid).
average(pointArrays) ==
  LET sum == sumSeries(pointArrays)
  IN  [i \in 1..Len(sum) |-> <<sum[i][1] \div Len(pointArrays), sum[i][2]>>]

\* What the aggregation functions are handed: the point arrays of the series
\* (nested), or the one point array an aggregation function before it
\* returned, which is taken to pass through as it is.
PointArrays(timeseries_data) ==
  [nested |-> TRUE,
   value |-> [i \in 1..Len(timeseries_data) |-> timeseries_data[i].datapoints]]

\* dataProcessor.metricFunctions: what the bound function f does to its input.
ApplyFunc(f, x) ==
  CASE f.name = "scale"     -> scale(f.num, x)
    [] f.name = "offset"    -> offset(f.num, x)
    [] f.name = "top"       -> top(f.num, x)
    [] f.name = "sumSeries" ->
         IF x.nested THEN [nested |-> FALSE, value |-> sumSeries(x.value)] ELSE x
    [] f.name = "average"   ->
         IF x.nested THEN [nested |-> FALSE, value |-> average(x.value)] ELSE x
    [] f.name = "setAlias"  -> [x EXCEPT !.target = f.str]
    [] f.name = "timeShift" -> <<x[1] - f.num, x[2] - f.num>>

\* dataProcessor.unShiftTimeSeries: shift is in seconds, timestamps in ms.
unShiftTimeSeries(shift, datapoints) ==
  [i \in 1..Len(datapoints) |-> <<datapoints[i][1], datapoints[i][2] + shift * 1000>>]

\* bindFunctionDefs: the entries of functionDefs registered under category,
\* in their declared order.
bindFunctionDefs(functionDefs, category) ==
  SelectSeq(functionDefs, LAMBDA func : Category(func.name) = category)

\* A sequence that calls the last function first.
RECURSIVE sequence_RightToLeft(_, _)
sequence_RightToLeft(funcsArray, result) ==
  IF funcsArray = <<>> THEN result
  ELSE sequence_RightToLeft(SubSeq(funcsArray, 1, Len(funcsArray) - 1),
                            ApplyFunc(funcsArray[Len(funcsArray)], result))

\* sequence([a, b, c])(x) = c(b(a(x))).
RECURSIVE sequence(_, _)
sequence(funcsArray, result) ==
  IF funcsArray = <<>> THEN result
  ELSE sequence(Tail(funcsArray), ApplyFunc(Head(funcsArray), result))

Names(funcs) == [i \in 1..Len(funcs) |-> funcs[i].name]

RECURSIVE Repeat(_, _)
Repeat(seq, n) == IF n = 0 THEN <<>> ELSE seq \o Repeat(seq, n - 1)

\* _.find / _.findLast over target.functions.
FindFirstNamed(funcs, name) ==
  LET hits == SelectSeq(funcs, LAMBDA func : func.name = name)
  IN  IF hits = <<>> THEN <<>> ELSE <<hits[1]>>

\* _.find in the place of _.findLast.
FindLastOfCategory_First(funcs, category) ==
  LET hits == bindFunctionDefs(funcs, category)
  IN  IF hits = <<>> THEN <<>> ELSE <<hits[1]>>

FindLastOfCategory(funcs, category) ==
  LET hits == bindFunctionDefs(funcs, category)
  IN  IF hits = <<>> THEN <<>> ELSE <<hits[Len(hits)]>>

\* applyTimeShiftFunction: the first timeShift entry, if any, is undone on
\* every series.
applyTimeShiftFunction(timeseries_data, target) ==
  LET timeShiftFunc == FindFirstNamed(target.functions, "timeShift")
  IN  IF timeShiftFunc # <<>>
      THEN [i \in 1..Len(timeseries_data) |->
              [timeseries_data[i] EXCEPT
                 !.datapoints = unShiftTimeSeries(timeShiftFunc[1].num, @)]]
      ELSE timeseries_data

\* A pipeline that sets the aliases before it aggregates.
applyDataProcessingFunctions_AliasFirst(timeseries_data, target) ==
  LET transformFunctions   == bindFunctionDefs(target.functions, "Transform")
      aggregationFunctions == bindFunctionDefs(target.functions, "Aggregate")
      filterFunctions      == bindFunctionDefs(target.functions, "Filter")
      aliasFunctions       == bindFunctionDefs(target.functions, "Alias")
      transformed == [i \in 1..Len(timeseries_data) |->
                        [timeseries_data[i] EXCEPT
                           !.datapoints = sequence(transformFunctions, @)]]
      filtered == IF filterFunctions # <<>> THEN sequence(filterFunctions, transformed)
                  ELSE transformed
      aliased == [i \in 1..Len(filtered) |-> sequence(aliasFunctions, filtered[i])]
      lastAgg == FindLastOfCategory(target.functions, "Aggregate")
      aggregated ==
        IF aggregationFunctions # <<>>
        THEN << [target |-> lastAgg[1].text,
                 datapoints |-> sequence(aggregationFunctions, PointArrays(aliased)).value] >>
        ELSE aliased
  IN  [series |-> applyTimeShiftFunction(aggregated, target),
       log |-> Repeat(Names(transformFunctions), Len(timeseries_data))
               \o Names(filterFunctions)
               \o Repeat(Names(aliasFunctions), Len(filtered))
               \o Names(aggregationFunctions)]

\* applyDataProcessingFunctions: the series it returns, and the names of the
\* functions in the order they were called.
applyDataProcessingFunctions(timeseries_data, target) ==
  LET transformFunctions   == bindFunctionDefs(target.functions, "Transform")
      aggregationFunctions == bindFunctionDefs(target.functions, "Aggregate")
      filterFunctions      == bindFunctionDefs(target.functions, "Filter")
      aliasFunctions       == bindFunctionDefs(target.functions, "Alias")
      \* Apply transformation functions
      transformed == [i \in 1..Len(timeseries_data) |->
                        [timeseries_data[i] EXCEPT
                           !.datapoints = sequence(transformFunctions, @)]]
      \* Apply filter functions
      filtered == IF filterFunctions # <<>> THEN sequence(filterFunctions, transformed)
                  ELSE transformed
      \* Apply aggregations
      lastAgg == FindLastOfCategory(target.functions, "Aggregate")
      aggregated ==
        IF aggregationFunctions # <<>>
        THEN << [target |-> lastAgg[1].text,
                 datapoints |-> sequence(aggregationFunctions, PointArrays(filtered)).value] >>
        ELSE filtered
      \* Apply alias functions
      aliased == [i \in 1..Len(aggregated) |-> sequence(aliasFunctions, aggregated[i])]
  IN  [series |-> applyTimeShiftFunction(aliased, target),
       log |-> Repeat(Names(transformFunctions), Len(timeseries_data))
               \o Names(filterFunctions)
               \o Names(aggregationFunctions)
               \o Repeat(Names(aliasFunctions), Len(aggregated))]

(***************************************************************************)
(* Function pipeline: inputs and the one action.                           *)
(***************************************************************************)
\* Functions a target can declare; "bogus" is registered under no category.
FuncPool ==
  { Func("scale", 2, "", "scale(2)"),
    Func("scale", 3, "", "scale(3)"),
    Func("offset", 1, "", "offset(1)"),
    Func("top", 1, "", "top(1, avg)"),
    Func("sumSeries", 0, "", "sumSeries()"),
    Func("average", 3600, "", "average(1h)"),
    Func("setAlias", 0, "CPU avg", "setAlias(CPU avg)"),
    Func("setAlias", 0, "load", "setAlias(load)"),
    Func("timeShift", 3600, "", "timeShift(1h)"),
    Func("bogus", 0, "", "bogus()") }

\* Function lists without repetition, of at most n entries.
RECURSIVE FuncLists(_)
FuncLists(n) ==
  IF n = 0 THEN {<<>>}
  ELSE LET shorter == FuncLists(n - 1)
       IN  shorter \cup
           UNION { { Append(fs, f) : f \in FuncPool \ {fs[i] : i \in 1..Len(fs)} } :
                   fs \in {l \in shorter : Len(l) = n - 1} }

\* Series as handleHistory builds them: one per item, on one time grid.
Series(label, v1, v2, from, to) ==
  [target |-> label, datapoints |-> <<<<v1, from * 1000>>, <<v2, to * 1000>>>>]

SeriesOf(n, from, to) ==
  SubSeq(<<Series("CPU load web-01", 2, 4, from, to),
           Series("CPU load web-02", 6, 4, from, to)>>, 1, n)

ItemCounts == {0, 1, 2}

NoTarget == [functions |-> <<>>]

InitPipeline ==
  /\ pApplied = FALSE
  /\ pTarget = NoTarget
  /\ pInput = <<>>
  /\ pOutput = <<>>
  /\ pLog = <<>>

\* applyDataProcessingFunctions(timeseries_data, target) on one input.
PipelineApply ==
  /\ ~pApplied
  /\ \E fs \in FuncLists(MaxFuncs), n \in ItemCounts :
       LET target == [functions |-> fs]
           timeseries_data == SeriesOf(n, 1000, 4600)
           out == applyDataProcessingFunctions(timeseries_data, target)
       IN  /\ pApplied' = TRUE
           /\ pTarget' = target
           /\ pInput' = timeseries_data
           /\ pOutput' = out.series
           /\ pLog' = out.log

NextPipeline == PipelineApply

(***************************************************************************)
(* Frontend (JavaScript): the panel query.                                 *)
(***************************************************************************)
\* 'now', in seconds, when the query is issued.
NowSec == 1000000
\* this.trendsFrom, '7d', in seconds.
TrendsFromSec == 604800

\* Targets a panel can hold. mode: 0 numeric, 1 IT service, 2 text.
\* group: whether target.group (and host, application, item) is defined.
Target(mode, hide, group, functions) ==
  [mode |-> mode, hide |-> hide, group |-> group, functions |-> functions]

QueryTargets ==
  { Target(0, FALSE, "set", <<>>),
    Target(0, FALSE, "set", <<Func("timeShift", 3600, "", "timeShift(1h)")>>),
    Target(0, FALSE, "set", <<Func("timeShift", 3600, "", "timeShift(1h)"),
                              Func("timeShift", 7200, "", "timeShift(2h)")>>),
    Target(0, FALSE, "set", <<Func("sumSeries", 0, "", "sumSeries()"),
                              Func("setAlias", 0, "CPU avg", "setAlias(CPU avg)")>>),
    Target(0, FALSE, "set", <<Func("bogus", 0, "", "bogus()"),
                              Func("scale", 2, "", "scale(2)")>>),
    Target(0, TRUE, "set", <<>>),
    Target(0, FALSE, "undefined", <<>>),
    Target(2, FALSE, "set", <<>>),
    Target(1, FALSE, "set", <<>>) }

RECURSIVE TargetLists(_)
TargetLists(n) ==
  IF n = 0 THEN {<<>>}
  ELSE LET shorter == TargetLists(n - 1)
       IN  shorter \cup
           UNION { { Append(ts, t) : t \in QueryTargets \ {ts[i] : i \in 1..Len(ts)} } :
                   ts \in {l \in shorter : Len(l) = n - 1} }

\* options.range (already in seconds), options.maxDataPoints,
\* options.interval (seconds), and the datasource's trends setting.
QueryOptions ==
  [from : {NowSec - TrendsFromSec + 1800, NowSec - TrendsFromSec - 3600}, span : {3600},
   maxDataPoints : {1, 100}, interval : {3600}, trends : BOOLEAN]

HasTimeFunction(target) == bindFunctionDefs(target.functions, "Time") # <<>>

HasUnknownFunction(target) ==
  \E i \in 1..Len(target.functions) : Category(target.functions[i].name) = "none"

\* The body of the _.map callback of query for one target, with the timeFrom
\* and timeTo of the enclosing scope as they are when it runs: what it
\* returns, and timeFrom and timeTo as it leaves them.
LaunchTarget(target, timeFrom, timeTo, useTrends) ==
  LET timeFunctions == bindFunctionDefs(target.functions, "Time")
      range == IF timeFunctions # <<>>
               THEN sequence(timeFunctions, <<timeFrom, timeTo>>)
               ELSE <<timeFrom, timeTo>>
      Launched(state, kind) ==
        [threw |-> FALSE, timeFrom |-> range[1], timeTo |-> range[2],
         state |-> state, from |-> range[1], to |-> range[2], kind |-> kind]
  IN  IF target.group = "undefined"
      \* replaceTargetVariables: target[p].filter of an undefined target[p]
      THEN [threw |-> TRUE, timeFrom |-> timeFrom, timeTo |-> timeTo,
            state |-> "none", from |-> 0, to |-> 0, kind |-> "none"]
      ELSE IF target.mode # 1
      THEN IF target.hide THEN Launched("skipped", "none")
           ELSE IF target.mode = 0
           THEN Launched("items", IF useTrends THEN "trend" ELSE "history")
           ELSE Launched("items", "history")
      ELSE IF target.hide THEN Launched("skipped", "none")
           ELSE Launched("fetch", "sla")

NotLaunched ==
  [threw |-> FALSE, timeFrom |-> 0, timeTo |-> 0,
   state |-> "none", from |-> 0, to |-> 0, kind |-> "none"]

\* _.map(options.targets, ...): the targets in order, each seeing timeFrom and
\* timeTo as the targets before it left them; a throw ends the map.
RECURSIVE LaunchAll(_, _, _, _, _)
LaunchAll(targets, i, timeFrom, timeTo, useTrends) ==
  IF i > Len(targets) THEN <<>>
  ELSE LET l == LaunchTarget(targets[i], timeFrom, timeTo, useTrends)
       IN  IF l.threw
           THEN <<l>> \o [j \in 1..(Len(targets) - i) |-> NotLaunched]
           ELSE <<l>> \o LaunchAll(targets, i + 1, l.timeFrom, l.timeTo, useTrends)

\* dataProcessor.groupBy(interval, AVERAGE, datapoints): one point per
\* interval-wide frame, the mean of the frame's values at the frame's start.
RECURSIVE SortedSeq(_)
SortedSeq(S) ==
  IF S = {} THEN <<>>
  ELSE LET m == CHOOSE x \in S : \A y \in S : x <= y
       IN  <<m>> \o SortedSeq(S \ {m})

groupByAverage(interval, datapoints) ==
  LET ms_interval == interval * 1000
      Frame(ts) == (ts \div ms_interval) * ms_interval
      frames == SortedSeq({Frame(datapoints[i][2]) : i \in 1..Len(datapoints)})
      PointsOf(fr) == SelectSeq(datapoints, LAMBDA pt : Frame(pt[2]) = fr)
  IN  [k \in 1..Len(frames) |->
         <<SumValues(PointsOf(frames[k])) \div Len(PointsOf(frames[k])), frames[k]>>]

\* A downsampleSeries that also regroups the series at the threshold.
downsampleSeries_AtThreshold(timeseries_data, options) ==
  [i \in 1..Len(timeseries_data) |->
     IF Len(timeseries_data[i].datapoints) >= options.maxDataPoints
     THEN [timeseries_data[i] EXCEPT !.datapoints = groupByAverage(options.interval, @)]
     ELSE timeseries_data[i]]

downsampleSeries(timeseries_data, options) ==
  [i \in 1..Len(timeseries_data) |->
     IF Len(timeseries_data[i].datapoints) > options.maxDataPoints
     THEN [timeseries_data[i] EXCEPT !.datapoints = groupByAverage(options.interval, @)]
     ELSE timeseries_data[i]]

RECURSIVE Flatten(_)
Flatten(lists) == IF lists = <<>> THEN <<>> ELSE Head(lists) \o Flatten(Tail(lists))

\* A join that hands over the values of the promise that settled first
\* before the others.
PromiseAll_FirstSettledFirst(values, first) ==
  IF first = 0 THEN Flatten(values)
  ELSE values[first] \o Flatten([i \in 1..Len(values) |-> IF i = first THEN <<>> ELSE values[i]])

\* Promise.all(_.flatten(promises)).then(_.flatten): the values of the
\* promises in the order of the promises, whichever settled first.
PromiseAll(values, first) == Flatten(values)

Settled == {"resolved", "rejected"}
Launched(st) == st \in {"items", "fetch", "resolved", "rejected"}

InitQuery ==
  /\ qState = "idle"
  /\ qTargets = <<>>
  /\ qOpts = [from |-> 0, span |-> 0, maxDataPoints |-> 0, interval |-> 0, trends |-> FALSE]
  /\ tState = <<>>
  /\ tFetch = <<>>
  /\ tItems = <<>>
  /\ tSeries = <<>>
  /\ qData = <<>>
  /\ qError = 0
  /\ qFirst = 0

\* Promise.all(_.flatten(promises)).then(_.flatten).then(downsampleSeries):
\* rejected by the first promise that rejects, resolved once every promise
\* has resolved. states and series are the targets' as the step leaves them.
Join(states, series, rejectedNow) ==
  IF qState # "pending" THEN UNCHANGED <<qState, qData, qError>>
  ELSE IF rejectedNow # 0
  THEN /\ qState' = "rejected"
       /\ qError' = rejectedNow
       /\ UNCHANGED qData
  ELSE IF \A i \in 1..Len(states) : Launched(states[i]) => states[i] = "resolved"
  THEN /\ qState' = "resolved"
       /\ qData' = downsampleSeries(PromiseAll(series, qFirst'), qOpts)
       /\ UNCHANGED qError
  ELSE UNCHANGED <<qState, qData, qError>>

\* query(options), up to the return of its promise.
QueryStart ==
  /\ qState = "idle"
  /\ \E targets \in TargetLists(MaxTargets) \ {<<>>}, options \in QueryOptions :
       LET timeFrom == options.from
           timeTo == options.from + options.span
           useTrendsFrom == NowSec - TrendsFromSec
           useTrends == (timeFrom <= useTrendsFrom) /\ options.trends
           launches == LaunchAll(targets, 1, timeFrom, timeTo, useTrends)
           threw == \E i \in 1..Len(launches) : launches[i].threw
           states == [i \in 1..Len(launches) |-> launches[i].state]
       IN  /\ qTargets' = targets
           /\ qOpts' = options
           /\ tState' = states
           /\ tFetch' = [i \in 1..Len(launches) |->
                           [from |-> launches[i].from, to |-> launches[i].to,
                            kind |-> launches[i].kind]]
           /\ tItems' = [i \in 1..Len(launches) |-> 0]
           /\ tSeries' = [i \in 1..Len(launches) |-> <<>>]
           /\ qError' = 0
           /\ qFirst' = 0
           /\ IF threw
              THEN qState' = "thrown" /\ qData' = <<>>
              ELSE IF \A i \in 1..Len(states) : ~Launched(states[i])
              THEN qState' = "resolved" /\ qData' = <<>>
              ELSE qState' = "pending" /\ qData' = <<>>

\* A target's pipeline settles.
Settle(i, state, series) ==
  /\ tState' = [tState EXCEPT ![i] = state]
  /\ tSeries' = [tSeries EXCEPT ![i] = series]
  /\ qFirst' = IF qFirst = 0 THEN i ELSE qFirst
  /\ Join(tState', tSeries', IF state = "rejected" THEN i ELSE 0)

\* zabbix.getItemsFromTarget resolves with n items.
ItemsResolved(i, n) ==
  /\ i \in 1..Len(tState)
  /\ tState[i] = "items"
  /\ tItems' = [tItems EXCEPT ![i] = n]
  /\ IF qTargets[i].mode = 2 /\ n = 0
     THEN Settle(i, "resolved", <<>>)
     ELSE /\ tState' = [tState EXCEPT ![i] = "fetch"]
          /\ UNCHANGED <<tSeries, qState, qData, qError, qFirst>>
  /\ UNCHANGED <<qTargets, qOpts, tFetch>>

\* zabbix.getItemsFromTarget rejects.
ItemsFailed(i) ==
  /\ i \in 1..Len(tState)
  /\ tState[i] = "items"
  /\ Settle(i, "rejected", <<>>)
  /\ UNCHANGED <<qTargets, qOpts, tFetch, tItems>>

\* getHistory / getTrend / getSLA resolves: the reply is normalized and, for a
\* numeric target, handed to applyDataProcessingFunctions.
FetchResolved(i) ==
  /\ i \in 1..Len(tState)
  /\ tState[i] = "fetch"
  /\ LET f == tFetch[i]
     IN  Settle(i, "resolved",
                CASE qTargets[i].mode = 0 ->
                       applyDataProcessingFunctions(SeriesOf(tItems[i], f.from, f.to),
                                                    qTargets[i]).series
                  [] qTargets[i].mode = 2 ->
                       <<[target |-> "Log web-01", datapoints |-> <<<<7, f.to * 1000>>>>]>>
                  [] OTHER ->
                       <<[target |-> "SLA", datapoints |-> <<<<99, f.to * 1000>>>>]>>)
  /\ UNCHANGED <<qTargets, qOpts, tFetch, tItems>>

\* getHistory / getTrend / getSLA rejects.
FetchFailed(i) ==
  /\ i \in 1..Len(tState)
  /\ tState[i] = "fetch"
  /\ Settle(i, "rejected", <<>>)
  /\ UNCHANGED <<qTargets, qOpts, tFetch, tItems>>

NextQuery ==
  \/ QueryStart
  \/ \E i \in 1..MaxTargets, n \in ItemCounts : ItemsResolved(i, n)
  \/ \E i \in 1..MaxTargets : ItemsFailed(i)
  \/ \E i \in 1..MaxTargets : FetchResolved(i)
  \/ \E i \in 1..MaxTargets : FetchFailed(i)

(***************************************************************************)
(* Frontend (JavaScript): ZabbixAPIService.request.                        *)
(***************************************************************************)
\* The calls of request that are followed.
Calls == {"c1", "c2"}

\* The auth argument: "" (not authenticated), null (login), absent
\* (getVersion), a token.
AuthArgs == {"", "<null>", "<absent>", "a0b1c2"}

\* A test that takes every falsy auth for not authenticated.
NotAuthenticated_Falsy(auth) == auth \in {"", "<null>", "<absent>"}

\* if (auth === "")
NotAuthenticated(auth) == auth = ""

\* else if (auth)
Truthy(auth) == auth \notin {"", "<null>", "<absent>"}

\* options: basicAuth ("" when unset) and withCredentials.
RequestOptions == [basicAuth : {"", "Basic YWRtaW46emFiYml4"}, withCredentials : BOOLEAN]

\* The response backendSrv.datasourceRequest resolves with: no data, or data
\* holding an error object, a result, both or neither.
Absent == "<undefined>"
Responses ==
  { [hasData |-> FALSE, error |-> Absent, result |-> Absent],
    [hasData |-> TRUE, error |-> "Invalid params.", result |-> Absent],
    [hasData |-> TRUE, error |-> "Invalid params.", result |-> "r1"],
    [hasData |-> TRUE, error |-> Absent, result |-> "r1"],
    [hasData |-> TRUE, error |-> Absent, result |-> Absent] }

\* How backendSrv.datasourceRequest can reject.
HttpFailures == {"connection", "status 500", "timeout"}

\* A $q deferred: settled by the first resolve or reject, later ones ignored.
Pending == [state |-> "pending", kind |-> "none", value |-> ""]

DeferredReject(deferred, kind, value) ==
  IF deferred.state = "pending"
  THEN [state |-> "rejected", kind |-> kind, value |-> value]
  ELSE deferred

DeferredResolve(deferred, value) ==
  IF deferred.state = "pending"
  THEN [state |-> "resolved", kind |-> "result", value |-> value]
  ELSE deferred

\* A then-callback that does not look at response.data.error.
OnResponse_ErrorUnchecked(deferred, response) ==
  IF ~response.hasData
  THEN [deferred |-> DeferredReject(deferred, "response", ""), calls |-> <<"reject">>]
  ELSE [deferred |-> DeferredResolve(deferred, response.result), calls |-> <<"resolve">>]

\* The then-callback of request: the deferred as it leaves it, and the
\* settling calls it made. Without data, response.data.result throws after
\* the reject.
OnResponse(deferred, response) ==
  IF ~response.hasData
  THEN [deferred |-> DeferredReject(deferred, "response", ""), calls |-> <<"reject">>]
  ELSE IF response.error # Absent
  THEN [deferred |-> DeferredResolve(DeferredReject(deferred, "error", response.error),
                                     response.result),
        calls |-> <<"reject", "resolve">>]
  ELSE [deferred |-> DeferredResolve(deferred, response.result), calls |-> <<"resolve">>]

NoRequestOptions == [hasAuth |-> FALSE, auth |-> "", withCredentials |-> FALSE, Authorization |-> ""]
NoResponse == [hasData |-> FALSE, error |-> Absent, result |-> Absent]

InitTransport ==
  /\ sHttp = [c \in Calls |-> "none"]
  /\ sAuth = [c \in Calls |-> ""]
  /\ sSent = [c \in Calls |-> NoRequestOptions]
  /\ sReply = [c \in Calls |-> NoResponse]
  /\ sDeferred = [c \in Calls |-> Pending]
  /\ sCalls = [c \in Calls |-> <<>>]

\* request(api_url, method, params, options, auth), up to its return.
Request(c, auth, options) ==
  /\ sHttp[c] = "none"
  /\ sDeferred[c] = Pending
  /\ sAuth' = [sAuth EXCEPT ![c] = auth]
  /\ IF NotAuthenticated(auth)
     THEN /\ sDeferred' = [sDeferred EXCEPT
                             ![c] = DeferredReject(@, "data", "Not authorised.")]
          /\ sCalls' = [sCalls EXCEPT ![c] = <<"reject">>]
          /\ UNCHANGED <<sHttp, sSent>>
     ELSE /\ sHttp' = [sHttp EXCEPT ![c] = "inflight"]
          /\ sSent' = [sSent EXCEPT ![c] =
               [hasAuth |-> Truthy(auth),
                auth |-> IF Truthy(auth) THEN auth ELSE "",
                withCredentials |-> (options.basicAuth # "" \/ options.withCredentials),
                Authorization |-> options.basicAuth]]
          /\ UNCHANGED <<sDeferred, sCalls>>
  /\ UNCHANGED sReply

\* backendSrv.datasourceRequest resolves: the then-callback runs.
HttpResolved(c, response) ==
  /\ sHttp[c] = "inflight"
  /\ sHttp' = [sHttp EXCEPT ![c] = "replied"]
  /\ sReply' = [sReply EXCEPT ![c] = response]
  /\ LET r == OnResponse(sDeferred[c], response)
     IN  /\ sDeferred' = [sDeferred EXCEPT ![c] = r.deferred]
         /\ sCalls' = [sCalls EXCEPT ![c] = r.calls]
  /\ UNCHANGED <<sAuth, sSent>>

\* backendSrv.datasourceRequest rejects: request registered no handler for it.
HttpRejected(c, failure) ==
  /\ sHttp[c] = "inflight"
  /\ sHttp' = [sHttp EXCEPT ![c] = failure]
  /\ UNCHANGED <<sAuth, sSent, sReply, sDeferred, sCalls>>

NextTransport ==
  \/ \E c \in Calls, auth \in AuthArgs, options \in RequestOptions : Request(c, auth, options)
  \/ \E c \in Calls, response \in Responses : HttpResolved(c, response)
  \/ \E c \in Calls, failure \in HttpFailures : HttpRejected(c, failure)

(***************************************************************************)
(* Backend (Go): the query resolver (package zabbix).                      *)
(***************************************************************************)
\* What the Zabbix server holds.
ServerGroups ==
  << [id |-> "1", name |-> "Linux servers"], [id |-> "2", name |-> "Databases"] >>

ServerHosts ==
  << [id |-> "10", name |-> "web-01", groupid |-> "1"],
     [id |-> "11", name |-> "web-02", groupid |-> "1"],
     [id |-> "12", name |-> "db-01", groupid |-> "2"] >>

ServerApps ==
  << [id |-> "100", name |-> "CPU", hostid |-> "10"],
     [id |-> "101", name |-> "CPU", hostid |-> "11"],
     [id |-> "102", name |-> "MySQL", hostid |-> "12"] >>

\* value_type "0" is numeric float, "1" is character.
ServerItems ==
  << [id |-> "1000", name |-> "CPU load", hostid |-> "10", appid |-> "100", value_type |-> "0"],
     [id |-> "1001", name |-> "CPU load", hostid |-> "11", appid |-> "101", value_type |-> "0"],
     [id |-> "1002", name |-> "Agent log", hostid |-> "10", appid |-> "100", value_type |-> "1"],
     [id |-> "1003", name |-> "Queries", hostid |-> "12", appid |-> "102", value_type |-> "0"] >>

\* The filters followed. Those delimited by slashes are regular expressions;
\* "/web-(/" does not compile.
RegexFilters == {"/.*/", "/^web-.*/", "/web-(/"}
MalformedFilters == {"/web-(/"}

\* regexp.MatchString for the patterns followed.
MatchString(re, name) ==
  CASE re = "/.*/"      -> TRUE
    [] re = "/^web-.*/" -> name \in {"web-01", "web-02"}
    [] OTHER            -> FALSE

\* parseFilter: (nil, nil) for a filter that is no /regex/, the compiled
\* expression for one that is, an error for one that does not compile.
parseFilter(filter) ==
  IF filter \notin RegexFilters THEN [re |-> Nil, err |-> Nil]
  ELSE IF filter \in MalformedFilters
  THEN [re |-> Nil, err |-> "error parsing regexp: missing closing ): web-("]
  ELSE [re |-> filter, err |-> Nil]

\* A filter function that takes a filter that does not compile for a name.
filterByQuery_ParseErrorDropped(items, filter) ==
  LET p == parseFilter(filter)
  IN  [list |-> SelectSeq(items, LAMBDA i :
                  IF p.re # Nil THEN MatchString(p.re, i.name) ELSE i.name = filter),
       err |-> Nil]

\* A filter function that takes "" and "*" for everything.
filterByQuery_Wildcard(items, filter) ==
  LET p == parseFilter(filter)
  IN  IF p.err # Nil THEN [list |-> <<>>, err |-> p.err]
      ELSE [list |-> SelectSeq(items, LAMBDA i :
                       IF p.re # Nil THEN MatchString(p.re, i.name)
                       ELSE filter \in {"", "*"} \/ i.name = filter),
            err |-> Nil]

\* filterGroupsByQuery, filterHostsByQuery, filterAppsByQuery and
\* filterItemsByQuery: the same body for the four entity types.
filterByQuery(items, filter) ==
  LET p == parseFilter(filter)
  IN  IF p.err # Nil THEN [list |-> <<>>, err |-> p.err]
      ELSE [list |-> SelectSeq(items, LAMBDA i :
                       IF p.re # Nil THEN MatchString(p.re, i.name)
                       ELSE i.name = filter),
            err |-> Nil]

filterGroupsByQuery(items, filter) == filterByQuery(items, filter)
filterHostsByQuery(items, filter) == filterByQuery(items, filter)
filterAppsByQuery(items, filter) == filterByQuery(items, filter)
filterItemsByQuery(items, filter) == filterByQuery(items, filter)

Ids(list) == [i \in 1..Len(list) |-> list[i].id]
IdSet(ids) == {ids[i] : i \in 1..Len(ids)}

\* isAppMethodNotFoundError.
AppMethodNotFound == "Method not found. Incorrect API \"application\"."
isAppMethodNotFoundError(e) == e # Nil /\ e = AppMethodNotFound

\* Requests of the resolver: method, the ids they are scoped to
\* (groupids, hostids, applicationids), the value_type filter.
ResolverRequest(method, groupids, hostids, appids, value_type) ==
  [method |-> method, groupids |-> groupids, hostids |-> hostids,
   applicationids |-> appids, value_type |-> value_type]

\* A GetAllItems that sets no value_type filter.
ValueTypes_Unrestricted(itemtype) == {}

\* GetAllItems: filter["value_type"] by itemtype.
ValueTypes(itemtype) ==
  CASE itemtype = "num"  -> {"0", "3"}
    [] itemtype = "text" -> {"1", "2", "4"}
    [] OTHER             -> {}

\* What the server answers to a request that succeeds. A scope that is not
\* given (nil) does not restrict.
ServerResult(request) ==
  LET InScope(ids, id) == ids = <<>> \/ id \in IdSet(ids)
  IN  CASE request.method = "hostgroup.get" -> ServerGroups
        [] request.method = "host.get" ->
             SelectSeq(ServerHosts, LAMBDA h : InScope(request.groupids, h.groupid))
        [] request.method = "application.get" ->
             SelectSeq(ServerApps, LAMBDA a : InScope(request.hostids, a.hostid))
        [] OTHER ->
             SelectSeq(ServerItems, LAMBDA i :
               /\ InScope(request.hostids, i.hostid)
               /\ InScope(request.applicationids, i.appid)
               /\ (request.value_type = {} \/ i.value_type \in request.value_type))

\* How a request can end: ds.Request returns a result or an error, and
\* convertTo returns nil or an error.
ResolverReplies ==
  { [err |-> Nil, convErr |-> Nil],
    [err |-> Nil, convErr |-> "json: Unmarshal(non-pointer)"],
    [err |-> "Post: dial tcp: connection refused", convErr |-> Nil],
    [err |-> "Invalid params. Incorrect arguments passed to API.", convErr |-> Nil],
    [err |-> AppMethodNotFound, convErr |-> Nil] }

\* convertTo(result, list): list is the caller's slice passed by value (the
\* callers write convertTo(result, items), not &items), so whatever convertTo
\* does with result the caller's variable is as it was: nil.
convertTo(result, list, reply) == [list |-> list, err |-> reply.convErr]

\* A fetcher that does not look at the error of ds.Request.
GetAll_RequestErrorDropped(request, reply) ==
  convertTo(ServerResult(request), <<>>, reply)

\* GetAllGroups, GetAllHosts, GetAllApps, GetAllItems, from the return of
\* ds.Request on: var items []T; err = convertTo(result, items); return items, err.
GetAll(request, reply) ==
  IF reply.err # Nil THEN [list |-> <<>>, err |-> reply.err]
  ELSE convertTo(ServerResult(request), <<>>, reply)

\* Arguments of GetItems.
GroupFilters == {"Linux servers", "/.*/", "*", "/web-(/"}
HostFilters == {"/^web-.*/", "web-01", "", "/web-(/"}
AppFilters == {"", "CPU", "/web-(/"}
ItemFilters == {"CPU load", "/.*/", "/web-(/"}
ItemTypes == {"num", "text", ""}

NoArgs == [groupFilter |-> "", hostFilter |-> "", appFilter |-> "", itemFilter |-> "",
           itemType |-> ""]
NoRequest == ResolverRequest("none", <<>>, <<>>, <<>>, {})
NoResult == [list |-> <<>>, err |-> Nil]

\* One step of GetItems and of the functions it calls: from the return of the
\* request awaited at 'at' to the next request or to the return of GetItems.
\*   groups1, hosts1: GetItems -> GetHosts (-> GetGroups)
\*   groups2, hosts2, apps: GetItems -> GetApps (-> GetHosts -> GetGroups)
\*   items: GetItems -> GetAllItems
GetItemsStep(at, args, hostids, request, reply) ==
  LET r == GetAll(request, reply)
      Done(result) ==
        [pc |-> "done", request |-> NoRequest, hostids |-> hostids, ret |-> result]
      Issue(next, nextRequest, hids) ==
        [pc |-> next, request |-> nextRequest, hostids |-> hids, ret |-> NoResult]
      \* GetItems lines 29-36, with err of GetAllItems still to come
      Items(appids) ==
        IF Len(hostids) > 0
        THEN Issue("items", ResolverRequest("item.get", <<>>, hostids, <<>>,
                                            ValueTypes(args.itemType)), hostids)
        ELSE IF Len(appids) > 0
        THEN Issue("items", ResolverRequest("item.get", <<>>, <<>>, appids,
                                            ValueTypes(args.itemType)), hostids)
        ELSE Done(filterItemsByQuery(<<>>, args.itemFilter))
      \* GetItems lines 17-23, with the error GetApps returned
      AppsFailed(e) ==
        IF isAppMethodNotFoundError(e) THEN Items(<<>>)
        ELSE Done([list |-> <<>>, err |-> e])
      groups == IF r.err # Nil THEN r ELSE filterGroupsByQuery(r.list, args.groupFilter)
      hosts  == IF r.err # Nil THEN r ELSE filterHostsByQuery(r.list, args.hostFilter)
      apps   == IF r.err # Nil THEN r ELSE filterAppsByQuery(r.list, args.appFilter)
  IN  CASE at = "groups1" ->
             IF groups.err # Nil THEN Done([list |-> <<>>, err |-> groups.err])
             ELSE Issue("hosts1", ResolverRequest("host.get", Ids(groups.list), <<>>, <<>>, {}),
                        hostids)
        [] at = "hosts1" ->
             IF hosts.err # Nil THEN Done([list |-> <<>>, err |-> hosts.err])
             ELSE Issue("groups2", ResolverRequest("hostgroup.get", <<>>, <<>>, <<>>, {}),
                        Ids(hosts.list))
        [] at = "groups2" ->
             IF groups.err # Nil THEN AppsFailed(groups.err)
             ELSE Issue("hosts2", ResolverRequest("host.get", Ids(groups.list), <<>>, <<>>, {}),
                        hostids)
        [] at = "hosts2" ->
             IF hosts.err # Nil THEN AppsFailed(hosts.err)
             ELSE Issue("apps", ResolverRequest("application.get", <<>>, Ids(hosts.list), <<>>, {}),
                        hostids)
        [] at = "apps" ->
             IF apps.err # Nil THEN AppsFailed(apps.err)
             ELSE Items(Ids(apps.list))
        [] OTHER ->
             \* at = "items": allItems, err = ds.GetAllItems(...); err is not looked at
             Done(filterItemsByQuery(r.list, args.itemFilter))

InitResolver ==
  /\ rPc = "idle"
  /\ rArgs = NoArgs
  /\ rRequest = NoRequest
  /\ rHostIds = <<>>
  /\ rLog = <<>>
  /\ rReplies = <<>>
  /\ rRet = NoResult

\* GetItems is called: GetHosts, GetGroups, GetAllGroups up to ds.Request.
GetItems(groupFilter, hostFilter, appFilter, itemFilter, itemType) ==
  /\ rPc = "idle"
  /\ rPc' = "groups1"
  /\ rArgs' = [groupFilter |-> groupFilter, hostFilter |-> hostFilter,
               appFilter |-> appFilter, itemFilter |-> itemFilter, itemType |-> itemType]
  /\ rRequest' = ResolverRequest("hostgroup.get", <<>>, <<>>, <<>>, {})
  /\ rLog' = <<rRequest'>>
  /\ UNCHANGED <<rHostIds, rReplies, rRet>>

\* The request awaited returns.
ResolverReply(reply) ==
  /\ rPc \notin {"idle", "done"}
  /\ LET next == GetItemsStep(rPc, rArgs, rHostIds, rRequest, reply)
     IN  /\ rPc' = next.pc
         /\ rRequest' = next.request
         /\ rHostIds' = next.hostids
         /\ rRet' = next.ret
         /\ rLog' = IF next.pc = "done" THEN rLog ELSE Append(rLog, next.request)
         /\ rReplies' = Append(rReplies, reply)
  /\ UNCHANGED rArgs

NextResolver ==
  \/ \E gf \in GroupFilters, hf \in HostFilters, af \in AppFilters, if \in ItemFilters,
        it \in ItemTypes : GetItems(gf, hf, af, if, it)
  \/ \E reply \in ResolverReplies : ResolverReply(reply)

(***************************************************************************)
(* The filter functions on their own.                                      *)
(***************************************************************************)
\* Lists of up to n entities of pool.
RECURSIVE EntityLists(_, _)
EntityLists(pool, n) ==
  IF n = 0 THEN {<<>>}
  ELSE LET shorter == EntityLists(pool, n - 1)
       IN  shorter \cup
           { Append(l, e) : l \in {x \in shorter : Len(x) = n - 1}, e \in pool }

FilterLevels == {"group", "host", "application", "item"}

EntityPool ==
  { [id |-> "10", name |-> "web-01"], [id |-> "11", name |-> "web-02"],
    [id |-> "12", name |-> "db-01"], [id |-> "13", name |-> "web-01"] }

FilterPool == {"", "*", "web-01", "web", "/.*/", "/^web-.*/", "/web-(/"}

filterLevelByQuery(level, items, filter) ==
  CASE level = "group"       -> filterGroupsByQuery(items, filter)
    [] level = "host"        -> filterHostsByQuery(items, filter)
    [] level = "application" -> filterAppsByQuery(items, filter)
    [] OTHER                 -> filterItemsByQuery(items, filter)

InitFilter ==
  /\ fLevel = "none"
  /\ fItems = <<>>
  /\ fFilter = ""
  /\ fOut = NoResult

FilterApply ==
  /\ fLevel = "none"
  /\ \E level \in FilterLevels, items \in EntityLists(EntityPool, MaxEntities),
        filter \in FilterPool :
       /\ fLevel' = level
       /\ fItems' = items
       /\ fFilter' = filter
       /\ fOut' = filterLevelByQuery(level, items, filter)

NextFilter == FilterApply

(***************************************************************************)
(* Backend (Go): TestConnection.                                           *)
(***************************************************************************)
\* What apiinfo.version can come to; "" is what MustString makes of a
\* result that is not a string.
VersionReplies ==
  {HttpFailure("transport"), HttpFailure("status"), HttpFailure("badjson"),
   ApiError("Invalid params.", "Incorrect API \"apiinfo\"."),
   ApiResult("5.0.0"), ApiResult("4.0.0"), ApiResult("3.0.1"), ApiResult("")}

NoOutcome == [kind |-> "none", prefix |-> "", value |-> ""]

\* BuildErrorResponse(fmt.Errorf(prefix + ": %w", err))
BuildErrorResponse(prefix, e) == [kind |-> "error", prefix |-> prefix, value |-> e]

\* BuildResponse(connectionTestResponse{ZabbixVersion: version})
connectionTestResponse(version) == [kind |-> "response", prefix |-> "", value |-> version]

Exchange(method, reply, e) == [method |-> method, kind |-> reply.kind, err |-> e]

InitTest ==
  /\ cPc = "idle"
  /\ cLog = <<>>
  /\ cOut = NoOutcome
  /\ cCalls = 0

\* TestConnection, up to the exchange of loginWithDs.
TestConnection ==
  /\ cPc \in {"idle", "done"}
  /\ cCalls < MaxCalls
  /\ cPc' = "login"
  /\ cLog' = <<>>
  /\ cOut' = NoOutcome
  /\ cCalls' = cCalls + 1
  /\ UNCHANGED authToken

\* loginWithDs returns: on an error the test ends, otherwise the token is
\* stored and apiinfo.version is sent. A failure on the datasource settings
\* ("config") comes before anything is sent.
TestLoginReply(reply) ==
  /\ cPc = "login"
  /\ LET l == loginWithDs(reply)
     IN  /\ cLog' = IF reply.kind = "config" THEN cLog
                    ELSE Append(cLog, Exchange("user.login", reply, l.err))
         /\ IF l.err # Nil
            THEN /\ cPc' = "done"
                 /\ cOut' = BuildErrorResponse("Authentication failed", l.err)
                 /\ UNCHANGED authToken
            ELSE /\ cPc' = "version"
                 /\ authToken' = l.auth
                 /\ UNCHANGED cOut
  /\ UNCHANGED cCalls

\* zabbixAPIRequest(..., "apiinfo.version", ..., "") returns.
TestVersionReply(reply) ==
  /\ cPc = "version"
  /\ LET r == zabbixAPIRequest(reply)
     IN  /\ cLog' = Append(cLog, Exchange("apiinfo.version", reply, r.err))
         /\ cOut' = IF r.err # Nil THEN BuildErrorResponse("Version check failed", r.err)
                    ELSE connectionTestResponse(r.result)
  /\ cPc' = "done"
  /\ UNCHANGED <<cCalls, authToken>>

NextTest ==
  \/ TestConnection
  \/ \E reply \in LoginReplies : TestLoginReply(reply)
  \/ \E reply \in VersionReplies : TestVersionReply(reply)

(***************************************************************************)
(* Frontend (JavaScript): metricFindQuery.                                 *)
(***************************************************************************)
\* Queries: strings, as sequences of characters, of at most n characters.
QueryChars == {"a", ".", "*"}

RECURSIVE MetricQueries(_)
MetricQueries(n) ==
  IF n = 0 THEN {<<>>}
  ELSE LET shorter == MetricQueries(n - 1)
       IN  shorter \cup
           { Append(q, c) : q \in {x \in shorter : Len(x) = n - 1}, c \in QueryChars }

\* query.split('.')
RECURSIVE Split(_)
Split(query) ==
  IF \A i \in 1..Len(query) : query[i] # "." THEN <<query>>
  ELSE LET dot == CHOOSE i \in 1..Len(query) :
                    query[i] = "." /\ \A j \in 1..(i - 1) : query[j] # "."
       IN  <<SubSeq(query, 1, dot - 1)>> \o Split(SubSeq(query, dot + 1, Len(query)))

AnyRegex == <<"/", ".", "*", "/">>

NoCall == [method |-> "idle", args |-> <<>>]

\* A metricFindQuery that takes every query of four parts or more for an
\* item query.
metricFindQuery_ItemsBeyondFour(query) ==
  LET parts == [i \in 1..Len(Split(query)) |->
                  IF Split(query)[i] = <<"*">> THEN AnyRegex ELSE Split(query)[i]]
  IN  IF Len(parts) >= 4 THEN [method |-> "getItems", args |-> SubSeq(parts, 1, 4)]
      ELSE IF Len(parts) = 3 THEN [method |-> "getApps", args |-> parts]
      ELSE IF Len(parts) = 2 THEN [method |-> "getHosts", args |-> parts]
      ELSE [method |-> "getGroups", args |-> parts]

\* metricFindQuery, up to the call on this.zabbix ("none": Promise.resolve([])).
metricFindQuery(query) ==
  LET parts == [i \in 1..Len(Split(query)) |->
                  \* Replace wildcard to regex
                  IF Split(query)[i] = <<"*">> THEN AnyRegex ELSE Split(query)[i]]
  IN  IF Len(parts) = 4
      THEN [method |-> "getItems",
            \* Search for all items, even it's not belong to any application
            args |-> [parts EXCEPT ![3] = IF @ = AnyRegex THEN <<>> ELSE @]]
      ELSE IF Len(parts) = 3 THEN [method |-> "getApps", args |-> parts]
      ELSE IF Len(parts) = 2 THEN [method |-> "getHosts", args |-> parts]
      ELSE IF Len(parts) = 1 THEN [method |-> "getGroups", args |-> parts]
      ELSE [method |-> "none", args |-> <<>>]

formatMetric(metricObj) == [text |-> metricObj.name, expandable |-> FALSE]

\* What this.zabbix can resolve with.
MetricLists == {<<>>, <<[name |-> "web-01"], [name |-> "web-02"]>>}

InitFind ==
  /\ mQuery = <<>>
  /\ mCall = NoCall
  /\ mOut = <<>>

\* metricFindQuery(query), its call resolving with metrics.
MetricFind ==
  /\ mCall = NoCall
  /\ \E query \in MetricQueries(MaxQueryLen), metrics \in MetricLists :
       LET call == metricFindQuery(query)
           result == IF call.method = "none" THEN <<>> ELSE metrics
       IN  /\ mQuery' = query
           /\ mCall' = call
           /\ mOut' = [i \in 1..Len(result) |-> formatMetric(result[i])]

NextFind == MetricFind

(***************************************************************************)
(* Backend (Go): GetAllItems on its own, for the targets of a panel.       *)
(***************************************************************************)
\* queryNumericData and queryTextData: options.itemtype for the target's mode.
ItemTypeOfMode(mode) == IF mode = 0 THEN "num" ELSE "text"

\* The calls followed: for a numeric (0) or a text (2) target, or with an
\* itemtype given by another caller (mode -1).
ItemCalls ==
  [mode : {0, 2}, itemtype : {""}] \cup [mode : {-1}, itemtype : ItemTypes \cup {"all"}]

HostIdLists == {<<>>, <<"10">>, <<"10", "11">>, <<"12">>}
AppIdLists == {<<>>, <<"100">>}

InitItems ==
  /\ iMode = -1
  /\ iType = ""
  /\ iRequest = NoRequest
  /\ iRet = NoResult

\* GetAllItems(hostids, appids, itemtype), its request returning reply.
GetAllItems(call, hostids, appids, reply) ==
  /\ iRequest = NoRequest
  /\ LET itemtype == IF call.mode = -1 THEN call.itemtype ELSE ItemTypeOfMode(call.mode)
         request == ResolverRequest("item.get", <<>>, hostids, appids, ValueTypes(itemtype))
     IN  /\ iMode' = call.mode
         /\ iType' = itemtype
         /\ iRequest' = request
         /\ iRet' = GetAll(request, reply)

NextItems ==
  \E call \in ItemCalls, hostids \in HostIdLists, appids \in AppIdLists,
     reply \in ResolverReplies : GetAllItems(call, hostids, appids, reply)

(***************************************************************************)
(* Frontend (JavaScript): annotationQuery.                                 *)
(***************************************************************************)
\* Triggers as trigger.get returns them; priority is what Number() makes of
\* the priority string.
Trigger(id, description, priority) ==
  [triggerid |-> id, description |-> description, priority |-> priority]

ServerTriggers ==
  << Trigger("1", "CPU high", 4), Trigger("2", "CPU load", 2), Trigger("3", "Disk full", 5) >>

TriggerLists ==
  {<<>>, ServerTriggers, <<ServerTriggers[3], ServerTriggers[2]>>}

\* Events as event.get returns them.
ServerEvents ==
  << [eventid |-> "e1", objectid |-> "1", clock |-> 1000, value |-> 1, acknowledges |-> 0],
     [eventid |-> "e2", objectid |-> "2", clock |-> 1060, value |-> 1, acknowledges |-> 1],
     [eventid |-> "e3", objectid |-> "3", clock |-> 1120, value |-> 0, acknowledges |-> 0],
     [eventid |-> "e4", objectid |-> "1", clock |-> 1180, value |-> 0, acknowledges |-> 2] >>

\* annotation.trigger: no filter, a name, a regular expression, one that does
\* not compile.
TriggerFilters == {"", "CPU high", "/^CPU/", "/CPU(/"}

\* annotation.minseverity; Undefined when the annotation has none, which
\* Number() turns into NaN.
Undefined == -1
MinSeverities == {Undefined, 0, 3, 5}

\* utils.isRegex: regexPattern.test(str).
isRegex(str) == str \in {"/^CPU/", "/CPU(/"}

\* utils.buildRegex(str).test(description); "throw" for the SyntaxError of
\* new RegExp on a pattern that does not compile.
buildRegexTest(str, description) ==
  CASE str = "/^CPU/" -> IF description \in {"CPU high", "CPU load"} THEN "true" ELSE "false"
    [] OTHER          -> "throw"

\* A trigger filter that leaves the severity out.
FilterTriggers_AnySeverity(triggers, annotation) ==
  LET named == IF isRegex(annotation.trigger)
               THEN SelectSeq(triggers, LAMBDA t :
                      buildRegexTest(annotation.trigger, t.description) = "true")
               ELSE IF annotation.trigger # ""
               THEN SelectSeq(triggers, LAMBDA t : t.description = annotation.trigger)
               ELSE triggers
  IN  [threw |-> isRegex(annotation.trigger) /\ \E i \in 1..Len(triggers) :
                   buildRegexTest(annotation.trigger, triggers[i].description) = "throw",
       triggers |-> named]

\* annotationQuery: the triggers that pass the description filter and then
\* the severity filter; threw when buildRegex throws.
FilterTriggers(triggers, annotation) ==
  LET \* Filter triggers by description
      named == IF isRegex(annotation.trigger)
               THEN SelectSeq(triggers, LAMBDA t :
                      buildRegexTest(annotation.trigger, t.description) = "true")
               ELSE IF annotation.trigger # ""
               THEN SelectSeq(triggers, LAMBDA t : t.description = annotation.trigger)
               ELSE triggers
      \* Remove events below the chosen severity; a comparison with NaN is false
      severe == SelectSeq(named, LAMBDA t :
                  annotation.minseverity # Undefined /\ t.priority >= annotation.minseverity)
  IN  [threw |-> isRegex(annotation.trigger) /\ \E i \in 1..Len(triggers) :
                   buildRegexTest(annotation.trigger, triggers[i].description) = "throw",
       triggers |-> severe]

\* var showOkEvents = annotation.showOkEvents ? [0, 1] : 1, as the set of
\* event values asked for.
ShowOkEvents(annotation) == IF annotation.showOkEvents THEN {0, 1} ELSE {1}

\* An acknowledged filter that hides nothing.
HideAcknowledged_Never(events, annotation) == events

\* Hide acknowledged events if option enabled.
HideAcknowledged(events, annotation) ==
  IF annotation.hideAcknowledged
  THEN SelectSeq(events, LAMBDA e : e.acknowledges = 0)
  ELSE events

\* What the server answers to getEvents. scoped: the events of the objectids
\* asked for; otherwise events of every trigger. Only events of the values
\* asked for.
EventsAnswered(scoped) ==
  SelectSeq(ServerEvents, LAMBDA e :
    /\ ~scoped \/ \E i \in 1..Len(aObjectIds) : aObjectIds[i] = e.objectid
    /\ e.value \in aValue)

Annotations ==
  [trigger : TriggerFilters, minseverity : MinSeverities,
   showOkEvents : BOOLEAN, hideAcknowledged : BOOLEAN]

NoAnnotation ==
  [trigger |-> "", minseverity |-> Undefined, showOkEvents |-> FALSE, hideAcknowledged |-> FALSE]

InitAnnotation ==
  /\ aPc = "idle"
  /\ aAnnotation = NoAnnotation
  /\ aFetched = <<>>
  /\ aObjectIds = <<>>
  /\ aValue = {}
  /\ aEvents = <<>>
  /\ aOut = <<>>

\* annotationQuery(options), up to the call of getTriggers.
AnnotationQuery(annotation) ==
  /\ aPc = "idle"
  /\ aPc' = "triggers"
  /\ aAnnotation' = annotation
  /\ UNCHANGED <<aFetched, aObjectIds, aValue, aEvents, aOut>>

\* getTriggers resolves: the triggers are filtered and getEvents is called
\* with the ids of those left.
TriggersResolved(triggers) ==
  /\ aPc = "triggers"
  /\ LET f == FilterTriggers(triggers, aAnnotation)
     IN  /\ aFetched' = triggers
         /\ IF f.threw
            THEN aPc' = "threw" /\ UNCHANGED <<aObjectIds, aValue>>
            ELSE /\ aPc' = "events"
                 /\ aObjectIds' = [i \in 1..Len(f.triggers) |-> f.triggers[i].triggerid]
                 /\ aValue' = ShowOkEvents(aAnnotation)
  /\ UNCHANGED <<aAnnotation, aEvents, aOut>>

\* getEvents resolves. scoped: the server answers with the events of the
\* objectids asked for (and of the values asked for); otherwise with events
\* of every trigger. An event of a trigger that is not among the indexed
\* ones makes indexedTriggers[event.objectid].description throw.
EventsResolved(scoped) ==
  /\ aPc = "events"
  /\ LET answered == EventsAnswered(scoped)
         triggers == FilterTriggers(aFetched, aAnnotation).triggers
         events == HideAcknowledged(answered, aAnnotation)
         Indexed(id) == \E i \in 1..Len(triggers) : triggers[i].triggerid = id
         Description(id) ==
           (CHOOSE t \in {triggers[i] : i \in 1..Len(triggers)} : t.triggerid = id).description
     IN  IF \E k \in 1..Len(events) : ~Indexed(events[k].objectid)
         THEN aPc' = "threw" /\ UNCHANGED aOut
         ELSE /\ aPc' = "done"
              /\ aOut' = [k \in 1..Len(events) |->
                            [time |-> events[k].clock * 1000,
                             title |-> IF events[k].value # 0 THEN "Problem" ELSE "OK",
                             text |-> [description |-> Description(events[k].objectid),
                                       acknowledges |-> events[k].acknowledges]]]
  /\ aEvents' = EventsAnswered(scoped)
  /\ UNCHANGED <<aAnnotation, aFetched, aObjectIds, aValue>>

NextAnnotation ==
  \/ \E annotation \in Annotations : AnnotationQuery(annotation)
  \/ \E triggers \in TriggerLists : TriggersResolved(triggers)
  \/ \E scoped \in BOOLEAN : EventsResolved(scoped)

(***************************************************************************)
(* Frontend (JavaScript): query and the caller's targets.                  *)
(***************************************************************************)
\* options.scopedVars and the dashboard's template variables.
ScopedVars == [group |-> "Linux", host |-> "web01", pattern |-> "error"]

\* templateSrv.replace(target, scopedVars) on the strings the targets hold.
templateSrvReplace(str, scopedVars) ==
  CASE str = "$group"     -> scopedVars.group
    [] str = "$host cpu"  -> scopedVars.host \o " cpu"
    [] str = "$pattern"   -> scopedVars.pattern
    [] OTHER              -> str

\* replaceTemplateVars(templateSrv, target, scopedVars): a target the
\* replacement changed is wrapped into /^...$/ unless it is a regex already.
replaceTemplateVars(str, scopedVars) ==
  LET replacedTarget == templateSrvReplace(str, scopedVars)
  IN  IF str # replacedTarget THEN "/^" \o replacedTarget \o "$/" ELSE replacedTarget

\* Targets as the panel editor holds them. group: target.group, defined or
\* not, with its filter (host, application and item go with it).
EditorTarget(defined, filter, textFilter, functions) ==
  [group |-> [defined |-> defined, filter |-> filter],
   textFilter |-> textFilter, functions |-> functions]

EditorTargets ==
  { EditorTarget(d, f, tf, fs) :
      d \in BOOLEAN, f \in {"$group", "Backend"}, tf \in {"", "$pattern"},
      fs \in { <<>>,
               <<Func("setAlias", 0, "$host cpu", "setAlias($host cpu)")>>,
               <<Func("scale", 100, "", "scale(100)"),
                 Func("setAlias", 0, "$host cpu", "setAlias($host cpu)")>> } }

RECURSIVE EditorTargetLists(_)
EditorTargetLists(n) ==
  IF n = 0 THEN {<<>>}
  ELSE LET shorter == EditorTargetLists(n - 1)
       IN  shorter \cup
           { Append(ts, t) : ts \in {l \in shorter : Len(l) = n - 1}, t \in EditorTargets }

\* A copy that shares the nested objects with the original (_.clone).
cloneDeep_Shallow(target) == [value |-> target, top |-> "copy", nested |-> "same"]

\* _.cloneDeep(target): an object of its own, and so are the objects in it.
cloneDeep(target) == [value |-> target, top |-> "copy", nested |-> "copy"]

\* replaceTargetVariables(target, options) on the object c: whether it
\* throws (reading .filter of an undefined part), the object as it leaves
\* it, and the original the object was copied from as it is then.
replaceTargetVariables(original, c, options) ==
  LET target == c.value
      params(fs) == [i \in 1..Len(fs) |->
                      [fs[i] EXCEPT !.str = templateSrvReplace(@, options.scopedVars)]]
      replaced == [target EXCEPT
                     !.group.filter = replaceTemplateVars(@, options.scopedVars),
                     !.textFilter = replaceTemplateVars(@, options.scopedVars),
                     !.functions = params(@)]
  IN  IF ~target.group.defined
      THEN [threw |-> TRUE, target |-> target, original |-> original]
      ELSE [threw |-> FALSE, target |-> replaced,
            original |->
              [original EXCEPT
                 !.group.filter = IF c.nested = "same" THEN replaced.group.filter ELSE @,
                 !.textFilter = IF c.top = "same" THEN replaced.textFilter ELSE @,
                 !.functions = IF c.nested = "same" THEN replaced.functions ELSE @]]

InitClone ==
  /\ kPc = "idle"
  /\ kBefore = <<>>
  /\ kAfter = <<>>
  /\ kWorked = <<>>

\* query(options): the _.map callback up to replaceTargetVariables, target
\* by target; a throw ends the map.
QueryClone(targets) ==
  /\ kPc = "idle"
  /\ LET options == [scopedVars |-> ScopedVars]
         done == [i \in 1..Len(targets) |->
                    replaceTargetVariables(targets[i], cloneDeep(targets[i]), options)]
         Reached(i) == \A j \in 1..(i - 1) : ~done[j].threw
     IN  /\ kBefore' = targets
         /\ kAfter' = [i \in 1..Len(targets) |->
                         IF Reached(i) THEN done[i].original ELSE targets[i]]
         /\ kWorked' = [i \in 1..Len(targets) |->
                          IF Reached(i) THEN done[i].target ELSE targets[i]]
         /\ kPc' = IF \E i \in 1..Len(targets) : done[i].threw THEN "thrown" ELSE "returned"

NextClone == \E targets \in EditorTargetLists(MaxTargets) \ {<<>>} : QueryClone(targets)

Init ==
  /\ InitGo /\ InitPipeline /\ InitQuery /\ InitTransport
  /\ InitResolver /\ InitFilter /\ InitTest /\ InitFind /\ InitItems /\ InitAnnotation /\ InitClone

Spec == Init /\ [][NextSession /\ UNCHANGED <<pipeVars, queryVars, transportVars, resolverVars, filterVars, testVars, findVars, itemVars, annotationVars, cloneVars>>]_vars

SpecCache == Init /\ [][NextCache /\ UNCHANGED <<pipeVars, queryVars, transportVars, resolverVars, filterVars, testVars, findVars, itemVars, annotationVars, cloneVars>>]_vars

SpecPipeline == Init /\ [][NextPipeline /\ UNCHANGED <<goVars, queryVars, transportVars, resolverVars, filterVars, testVars, findVars, itemVars, annotationVars, cloneVars>>]_vars

SpecQuery == Init /\ [][NextQuery /\ UNCHANGED <<goVars, pipeVars, transportVars, resolverVars, filterVars, testVars, findVars, itemVars, annotationVars, cloneVars>>]_vars

SpecTransport ==
  Init /\ [][NextTransport /\ UNCHANGED <<goVars, pipeVars, queryVars, resolverVars, filterVars, testVars, findVars, itemVars, annotationVars, cloneVars>>]_vars

SpecResolver ==
  Init /\ [][NextResolver /\ UNCHANGED <<goVars, pipeVars, queryVars, transportVars, filterVars, testVars, findVars, itemVars, annotationVars, cloneVars>>]_vars

SpecFilter ==
  Init /\ [][NextFilter /\ UNCHANGED <<goVars, pipeVars, queryVars, transportVars, resolverVars, testVars, findVars, itemVars, annotationVars, cloneVars>>]_vars

SpecFind ==
  Init /\ [][NextFind /\ UNCHANGED <<goVars, pipeVars, queryVars, transportVars, resolverVars, filterVars, testVars, itemVars, annotationVars, cloneVars>>]_vars

SpecItems ==
  Init /\ [][NextItems /\ UNCHANGED <<goVars, pipeVars, queryVars, transportVars, resolverVars, filterVars, testVars, findVars, annotationVars, cloneVars>>]_vars

SpecAnnotation ==
  Init /\ [][NextAnnotation /\ UNCHANGED <<goVars, pipeVars, queryVars, transportVars, resolverVars, filterVars, testVars, findVars, itemVars, cloneVars>>]_vars

SpecClone ==
  Init /\ [][NextClone /\ UNCHANGED <<goVars, pipeVars, queryVars, transportVars, resolverVars, filterVars, testVars, findVars, itemVars, annotationVars>>]_vars

SpecTest ==
  Init /\ [][/\ NextTest
             /\ UNCHANGED <<queryCache, now, calls, pc, req, attempt, ret, hit, fresh, sends,
                            logins, sentAuth, err, relogins, lastRet, lastDoneAt, tokenGen,
                            sentGen>>
             /\ UNCHANGED <<pipeVars, queryVars, transportVars, resolverVars, filterVars, findVars, itemVars, annotationVars, cloneVars>>]_vars

(***************************************************************************)
(* Session manager: claims.                                                *)
(***************************************************************************)
\* C1: whenever a protected call that carried a held token is answered with
\* an API error whose message is one of the not-authorized messages (and
\* attempts are left), ZabbixRequest discards the token and goes on to retry;
\* the retry is sent after exactly one user.login, with the token that login
\* returned.
C1_ReloginOnNotAuthorized ==
  [][ /\ \A m \in NotAuthorizedMessages, d \in {"", "authorised.", "Not authorised."} :
           ( /\ sentAuth["g1"] # ""
             /\ attempt["g1"] < MaxAttempt
             /\ CallReply("g1", ApiError(m, d)) )
           => (authToken' = "" /\ pc'["g1"] = "loop")
      /\ (attempt["g1"] > 0 /\ CallSend("g1"))
           => (relogins["g1"] = 1 /\ sentAuth'["g1"] = authToken) ]_vars

\* C2 (as stated): one call sends the protected method at most 3 times.
C2_AtMostThreeSends == \A p \in Procs : sends[p] <= 3

\* C2 (amended): one call sends the protected method at most 4 times and
\* logs in at most 4 times (attempts 0 to 3); once the 4th reply in a row is a
\* not-authorized error the call has ended, returning that error.
C2_AtMostFourSends ==
  \A p \in Procs :
    /\ sends[p] <= MaxAttempt + 1
    /\ logins[p] <= MaxAttempt + 1
    /\ attempt[p] <= MaxAttempt + 1
    /\ attempt[p] = MaxAttempt + 1
         => (pc[p] = "done" /\ isNotAuthorized(err[p]) /\ ret[p].kind = "error")

\* C2, witness: a call that ended after 4 sends, each answered not-authorized.
C2_FourSendsReached ==
  \E p \in Procs :
    pc[p] = "done" /\ sends[p] = MaxAttempt + 1 /\ attempt[p] = MaxAttempt + 1
      /\ isNotAuthorized(err[p])

\* C3: a well-formed request repeated while an earlier fetch of it is within
\* the TTL is served from the cache (no upstream call) and returns what that
\* fetch returned; repeated after the TTL, or never fetched, it is fetched
\* upstream.
C3_RepeatServedFromCache ==
  \A p \in Procs :
    (pc[p] = "done" /\ Queries(req[p]) = "ok")
      => /\ fresh[p] => (hit[p] /\ sends[p] = 0 /\ ret[p] = lastRet[req[p]])
         /\ ~fresh[p] => ~hit[p]

\* C4: identical queries started while no cache entry exists share one
\* upstream fetch: no two goroutines are inside ZabbixRequest for one key at
\* the same time, and two overlapping calls return the same value.
C4_SingleFlight ==
  \A p, q \in Procs :
    (p # q /\ req[p] = req[q] /\ InRequest(p)) => ~InRequest(q)

(***************************************************************************)
(* Panel query and function pipeline: claims.                              *)
(***************************************************************************)
\* C5: once the promise returned by query has settled, every launched
\* target's pipeline has settled (the join waited for all of them), and the
\* series of every target that resolved are part of the panel result even
\* when a sibling's pipeline failed.
C5_FailureLeavesSiblings ==
  /\ qState \in Settled =>
       \A i \in 1..Len(tState) : Launched(tState[i]) => tState[i] \in Settled
  /\ (/\ qState \notin {"idle", "thrown"}
      /\ \A i \in 1..Len(tState) : Launched(tState[i]) => tState[i] \in Settled)
     => /\ qState = "resolved"
        /\ qData = downsampleSeries(Flatten(tSeries), qOpts)

\* C6: a launched target that declares no Time function is fetched with the
\* panel's from and to; one that declares timeShift is fetched with the
\* panel's from and to moved back by its own shift only.
C6_TimeFunctionsStayInTarget ==
  \A i \in 1..Len(tState) :
    Launched(tState[i]) =>
      LET own == sequence(bindFunctionDefs(qTargets[i].functions, "Time"),
                          <<qOpts.from, qOpts.from + qOpts.span>>)
      IN  /\ tFetch[i].from = own[1]
          /\ tFetch[i].to = own[2]

CategoryRank(name) ==
  CASE Category(name) = "Transform" -> 1
    [] Category(name) = "Filter"    -> 2
    [] Category(name) = "Aggregate" -> 3
    [] Category(name) = "Alias"     -> 4
    [] OTHER                        -> 0

\* The entries of funcs of the four processing categories, by category in
\* the pipeline's order, each category in its declared order; the Time
\* entries, which the pipeline only undoes at its end, follow.
ByCategory(funcs) ==
  bindFunctionDefs(funcs, "Transform") \o bindFunctionDefs(funcs, "Filter") \o
  bindFunctionDefs(funcs, "Aggregate") \o bindFunctionDefs(funcs, "Alias") \o
  bindFunctionDefs(funcs, "Time")

\* C7: whatever the order of target.functions, the functions are applied by
\* category, Transform then Filter then Aggregate then Alias; the result is
\* the one the category-ordered list gives; when the target has an alias
\* function every output series, aggregated or not, carries the last alias;
\* sumSeries followed or preceded by setAlias on two series yields the one
\* series of the sums, labelled with the alias.
C7_FixedCategoryOrder ==
  pApplied =>
    LET funcs == pTarget.functions
        alias == FindLastOfCategory(funcs, "Alias")
    IN  /\ \A i, j \in 1..Len(pLog) :
             i < j => CategoryRank(pLog[i]) <= CategoryRank(pLog[j])
        /\ \A i \in 1..Len(pLog) : CategoryRank(pLog[i]) >= 1
        /\ pInput # <<>> =>
             \A k \in 1..Len(funcs) :
               CategoryRank(funcs[k].name) >= 1 =>
                 \E i \in 1..Len(pLog) : pLog[i] = funcs[k].name
        /\ pOutput = applyDataProcessingFunctions(pInput, [functions |-> ByCategory(funcs)]).series
        /\ alias # <<>> => \A i \in 1..Len(pOutput) : pOutput[i].target = alias[1].str
        /\ (/\ Len(pInput) = 2
            /\ \E k \in 1..Len(funcs) : funcs[k].name = "sumSeries"
            /\ \A k \in 1..Len(funcs) : funcs[k].name \in {"sumSeries", "setAlias"}
            /\ alias # <<>>)
           => pOutput = <<[target |-> alias[1].str,
                           datapoints |-> <<<<8, 1000000>>, <<8, 4600000>>>>]>>

\* C7, witness: a target declaring alias, aggregate, filter and transform in
\* that (reverse) order was applied to two series and gave one aliased series.
C7_ReverseDeclaredApplied ==
  /\ pApplied
  /\ Len(pInput) = 2
  /\ Len(pTarget.functions) = 4
  /\ Names(pTarget.functions) = <<"setAlias", "sumSeries", "top", "scale">>
  /\ pLog = <<"scale", "scale", "top", "sumSeries", "setAlias">>
  /\ Len(pOutput) = 1
  /\ pOutput[1].target = pTarget.functions[1].str

\* C8: a target whose function list holds a name registered under no
\* category never has its pipeline resolve: it fails.
C8_UnknownFunctionFails ==
  \A i \in 1..Len(tState) :
    (HasUnknownFunction(qTargets[i]) /\ tState[i] \in Settled) => tState[i] = "rejected"

(***************************************************************************)
(* Request transport: claims.                                              *)
(***************************************************************************)
\* C9: a reply whose body holds an error object ends the request as a failure
\* carrying that error, whether or not a result came with it: the promise of
\* ZabbixAPIService.request is rejected with response.data.error, the resolve
\* that follows the reject leaves it so, and zabbixAPIRequest returns no
\* result and an error made of the error object's message and data.
C9_ErrorReplyRejects ==
  /\ \A c \in Calls :
       (sHttp[c] = "replied" /\ sReply[c].hasData /\ sReply[c].error # Absent) =>
         /\ sDeferred[c] = [state |-> "rejected", kind |-> "error", value |-> sReply[c].error]
         /\ sCalls[c] = <<"reject", "resolve">>
  /\ \A reply \in ErrorReplies :
       zabbixAPIRequest(reply) =
         [result |-> Nil, err |-> reply.message \o " " \o reply.data]

\* C9, witness: a reply holding both an error object and a result arrived and
\* the promise is rejected with the error.
C9_ErrorWithResultRejected ==
  \E c \in Calls :
    /\ sHttp[c] = "replied"
    /\ sReply[c].hasData
    /\ sReply[c].error # Absent
    /\ sReply[c].result # Absent
    /\ sDeferred[c].state = "rejected"
    /\ sDeferred[c].value = sReply[c].error

\* C10: once the HTTP call of a request has completed or failed, the promise
\* the request returned is settled, rejected when the call failed.
C10_SettledAfterHttp ==
  \A c \in Calls :
    /\ sHttp[c] \notin {"none", "inflight"} => sDeferred[c].state # "pending"
    /\ sHttp[c] \in HttpFailures => sDeferred[c].state = "rejected"

(***************************************************************************)
(* Session manager: errors, login, the auth field, concurrent re-login.    *)
(***************************************************************************)
\* C11: when the reply to the protected call is an error that is none of the
\* not-authorized messages, that step ends the call with the error: the held
\* token is left as it is, no user.login follows, the method is not sent
\* again, and a call whose first reply it was has sent the method once.
C11_OtherErrorReturnedAtOnce ==
  [][(/\ pc["g1"] = "wait"
      /\ pc'["g1"] # "wait"
      /\ err'["g1"] # Nil
      /\ err'["g1"] \notin NotAuthorizedMessages)
     => /\ pc'["g1"] = "done"
        /\ ret'["g1"].kind = "error"
        /\ authToken' = authToken
        /\ sends' = sends
        /\ logins' = logins
        /\ attempt' = attempt
        /\ attempt["g1"] = 0 => sends["g1"] = 1]_vars

\* C11, witness: a call ended by a non-2xx status after one send, with the
\* token still held.
C11_StatusErrorAfterOneSend ==
  /\ pc["g1"] = "done"
  /\ err["g1"] = "invalid status code. status: 500 Internal Server Error"
  /\ sends["g1"] = 1
  /\ attempt["g1"] = 0
  /\ authToken # ""
  /\ ret["g1"].kind = "error"

\* C12: when user.login fails, that step ends the call with the login error:
\* no token is held, the protected method is not sent, and the one login of
\* the step is the last of the call.
C12_LoginFailureReturnedAtOnce ==
  [][(pc["g1"] = "login" /\ pc'["g1"] # "login" /\ err'["g1"] # Nil)
     => /\ pc'["g1"] = "done"
        /\ ret'["g1"].kind = "error"
        /\ authToken' = ""
        /\ sends' = sends
        /\ attempt' = attempt
        /\ logins'["g1"] <= logins["g1"] + 1]_vars

\* C12, witness: a call whose re-login after a not-authorized reply failed:
\* it ended with the login error after its one send, with no token held.
C12_ReloginFailed ==
  /\ pc["g1"] = "done"
  /\ attempt["g1"] = 1
  /\ sends["g1"] = 1
  /\ logins["g1"] >= 1
  /\ err["g1"] = "Invalid params. Login name or password is incorrect."
  /\ authToken = ""

\* C13: every protected call that has been sent carried an auth field, whose
\* value is the non-empty token held.
C13_ProtectedCallCarriesToken ==
  pc["g1"] = "wait" =>
    /\ HasAuthField(sentAuth["g1"])
    /\ sentAuth["g1"] = authToken

\* C14: two calls that were answered not-authorized for the same token never
\* both perform a user.login for it.
C14_OneReloginForStaleToken ==
  \A p, q \in Procs :
    (/\ p # q
     /\ pc[p] = "call" /\ pc[q] = "call"
     /\ attempt[p] >= 1 /\ attempt[q] >= 1
     /\ sentAuth[p] # "" /\ sentAuth[q] # ""
     /\ sentGen[p] = sentGen[q])
    => relogins[p] + relogins[q] <= 1

(***************************************************************************)
(* Query resolver: claims.                                                 *)
(***************************************************************************)
\* The first n requests of the resolution returned a result that convertTo
\* accepted.
FetchedOk(n) ==
  /\ Len(rReplies) >= n
  /\ \A k \in 1..n : rReplies[k].err = Nil /\ rReplies[k].convErr = Nil

WellFormed(filter) == filter \notin MalformedFilters

\* What the server holds for the arguments of GetItems: the groups whose name
\* satisfies groupFilter, their hosts whose name satisfies hostFilter, those
\* hosts' items of the item type whose name satisfies itemFilter.
MatchingGroups(args) == filterGroupsByQuery(ServerGroups, args.groupFilter).list

MatchingHosts(args) ==
  filterHostsByQuery(
    SelectSeq(ServerHosts, LAMBDA h : h.groupid \in IdSet(Ids(MatchingGroups(args)))),
    args.hostFilter).list

MatchingItems(args) ==
  filterItemsByQuery(
    SelectSeq(ServerItems, LAMBDA i :
      /\ i.hostid \in IdSet(Ids(MatchingHosts(args)))
      /\ (ValueTypes(args.itemType) = {} \/ i.value_type \in ValueTypes(args.itemType))),
    args.itemFilter).list

C16_MissingApplicationAPI ==
  (/\ rPc = "done"
   /\ Len(rLog) >= 5
   /\ rLog[5].method = "application.get"
   /\ FetchedOk(4))
  => /\ (rReplies[5].err = AppMethodNotFound /\ WellFormed(rArgs.itemFilter)) =>
          /\ rRet.err = Nil
          /\ rRet.list = MatchingItems(rArgs)
     /\ (rReplies[5].err # Nil /\ rReplies[5].err # AppMethodNotFound) =>
          rRet.err = rReplies[5].err

\* C17: a filter function given the filter "" or "*" returns its whole input.
C17_EmptyOrWildcardSelectsAll ==
  (fLevel # "none" /\ fFilter \in {"", "*"}) =>
    /\ fOut.err = Nil
    /\ fOut.list = fItems

\* out holds, in the order of in, exactly the entities of in whose name
\* satisfies filter: equality, or a match for a /regex/.
RECURSIVE IsSelectionOf(_, _, _)
IsSelectionOf(out, in, filter) ==
  IF in = <<>> THEN out = <<>>
  ELSE LET name == Head(in).name
           satisfies == IF filter \in RegexFilters THEN MatchString(filter, name)
                        ELSE name = filter
       IN  IF satisfies
           THEN out # <<>> /\ Head(out) = Head(in) /\ IsSelectionOf(Tail(out), Tail(in), filter)
           ELSE IsSelectionOf(out, Tail(in), filter)

\* C18: each of the four filter functions, given a filter that is no
\* malformed regex, returns without an error exactly the input entities whose
\* name satisfies the filter, in input order.
C18_FilterSelectsExactly ==
  (fLevel # "none" /\ WellFormed(fFilter)) =>
    /\ fOut.err = Nil
    /\ IsSelectionOf(fOut.list, fItems, fFilter)

\* C18, witness: filterHostsByQuery with /^web-.*/ on web-01, db-01, web-02
\* returned web-01, web-02.
C18_WebHostsSelected ==
  /\ fLevel = "host"
  /\ fFilter = "/^web-.*/"
  /\ fItems = << [id |-> "10", name |-> "web-01"], [id |-> "12", name |-> "db-01"],
                 [id |-> "11", name |-> "web-02"] >>
  /\ fOut.list = << [id |-> "10", name |-> "web-01"], [id |-> "11", name |-> "web-02"] >>

C20_TopDownScoped ==
  \A k \in 1..Len(rLog) :
    /\ rLog[k].method = "host.get" =>
         /\ k > 1 /\ rLog[k - 1].method = "hostgroup.get"
         /\ rLog[k].groupids = Ids(MatchingGroups(rArgs))
    /\ rLog[k].method = "application.get" =>
         /\ k > 1 /\ rLog[k - 1].method = "host.get"
         /\ rLog[k].hostids = Ids(MatchingHosts(rArgs))
    /\ rLog[k].method = "item.get" =>
         \E j \in 1..(k - 1) : rLog[j].method = "application.get"

\* C21: a resolution issues at most one item.get; one that returned without
\* an error issued exactly one, scoped to the ids of the server's hosts that
\* match, when there are such hosts, and none, returning no items, when there
\* are none.
C21_OneScopedItemGet ==
  LET itemGets == SelectSeq(rLog, LAMBDA q : q.method = "item.get")
  IN  /\ Len(itemGets) <= 1
      /\ (rPc = "done" /\ rRet.err = Nil) =>
           IF MatchingHosts(rArgs) # <<>>
           THEN /\ Len(itemGets) = 1
                /\ itemGets[1].hostids = Ids(MatchingHosts(rArgs))
                /\ itemGets[1].applicationids = <<>>
           ELSE itemGets = <<>> /\ rRet.list = <<>>

(***************************************************************************)
(* Function pipeline: aggregation, composition.                            *)
(***************************************************************************)
\* C22: with an Aggregate function among target.functions the pipeline
\* returns one series, labelled (when no alias function relabels it) with
\* the text of the Aggregate entry that comes last in target.functions;
\* with none, it returns as many series as the filter functions left.
C22_AggregateGivesOneSeries ==
  pApplied =>
    LET funcs == pTarget.functions
        aggregates == {i \in 1..Len(funcs) : Category(funcs[i].name) = "Aggregate"}
        last == CHOOSE i \in aggregates : \A j \in aggregates : j <= i
        filters == bindFunctionDefs(funcs, "Filter")
    IN  IF aggregates # {}
        THEN /\ Len(pOutput) = 1
             /\ bindFunctionDefs(funcs, "Alias") = <<>> => pOutput[1].target = funcs[last].text
        ELSE Len(pOutput) = Len(sequence(filters, pInput))

\* C22, witness: sumSeries, scale, average declared in that order on two
\* series: one series, labelled average(1h).
C22_LastAggregateLabels ==
  /\ pApplied
  /\ Names(pTarget.functions) = <<"sumSeries", "scale", "average">>
  /\ Len(pInput) = 2
  /\ Len(pOutput) = 1
  /\ pOutput[1].target = "average(1h)"

\* fn(...f2(f1(x))...), from the outside in.
RECURSIVE Composed(_, _)
Composed(fs, x) ==
  IF fs = <<>> THEN x
  ELSE ApplyFunc(fs[Len(fs)], Composed(SubSeq(fs, 1, Len(fs) - 1), x))

\* C23: for the Transform functions fs of a target, in declared order, and
\* the datapoints x of each input series: sequence(fs)(x) is fn(...f1(x)...),
\* sequence([])(x) is x, and for every split of fs into a front and a back
\* sequence(fs)(x) is sequence(back)(sequence(front)(x)); the series a target
\* of Transform functions only gives are the inputs so composed.
C23_SequenceComposes ==
  pApplied =>
    LET fs == bindFunctionDefs(pTarget.functions, "Transform")
    IN  /\ \A i \in 1..Len(pInput) :
             LET x == pInput[i].datapoints
             IN  /\ sequence(fs, x) = Composed(fs, x)
                 /\ sequence(<<>>, x) = x
                 /\ \A k \in 0..Len(fs) :
                      sequence(fs, x) =
                        sequence(SubSeq(fs, k + 1, Len(fs)), sequence(SubSeq(fs, 1, k), x))
        /\ fs = pTarget.functions =>
             /\ Len(pOutput) = Len(pInput)
             /\ \A i \in 1..Len(pInput) :
                  pOutput[i].datapoints = Composed(fs, pInput[i].datapoints)

\* C23, witness: scale(2), offset(1), scale(3) on the values 2 and 4 gave
\* (2 * 2 + 1) * 3 and (4 * 2 + 1) * 3.
C23_ScaleOffsetScale ==
  /\ pApplied
  /\ Names(pTarget.functions) = <<"scale", "offset", "scale">>
  /\ pTarget.functions[1].num = 2
  /\ Len(pInput) >= 1
  /\ pOutput[1].datapoints = <<<<15, 1000000>>, <<27, 4600000>>>>

(***************************************************************************)
(* Panel query: time shift, downsampling.                                  *)
(***************************************************************************)
\* C24: the series of the panel's first target, when it is a numeric target
\* that declares timeShift functions, have every timestamp within the
\* panel's from and to.
C24_TimeShiftRoundTrip ==
  (/\ Len(tState) >= 1
   /\ tState[1] = "resolved"
   /\ qTargets[1].mode = 0
   /\ HasTimeFunction(qTargets[1]))
  => \A k \in 1..Len(tSeries[1]) :
       \A j \in 1..Len(tSeries[1][k].datapoints) :
         LET ts == tSeries[1][k].datapoints[j][2]
         IN  qOpts.from * 1000 <= ts /\ ts <= (qOpts.from + qOpts.span) * 1000

\* C25: the data of a resolved query are the series of its targets, in target
\* order, as many as the pipelines gave: the series of at most maxDataPoints
\* points as they were, the longer ones with their points grouped by the
\* interval and nothing else changed; and a query holds data only when the
\* pipeline of every launched target has resolved.
C25_DownsampleOverThreshold ==
  LET series == Flatten(tSeries)
  IN  /\ qData # <<>> =>
           /\ qState = "resolved"
           /\ \A i \in 1..Len(tState) : Launched(tState[i]) => tState[i] = "resolved"
      /\ qState = "resolved" =>
           /\ Len(qData) = Len(series)
           /\ \A k \in 1..Len(series) :
                /\ qData[k].target = series[k].target
                /\ IF Len(series[k].datapoints) <= qOpts.maxDataPoints
                   THEN qData[k].datapoints = series[k].datapoints
                   ELSE qData[k].datapoints =
                          groupByAverage(qOpts.interval, series[k].datapoints)

\* C25, witness: a resolved query with maxDataPoints 1 whose data hold a
\* series of one point, as it was, and a series of two points, regrouped.
C25_OneKeptOneRegrouped ==
  LET series == Flatten(tSeries)
  IN  /\ qState = "resolved"
      /\ qOpts.maxDataPoints = 1
      /\ \E k \in 1..Len(series) :
           Len(series[k].datapoints) = 1 /\ qData[k] = series[k]
      /\ \E k \in 1..Len(series) :
           Len(series[k].datapoints) = 2 /\ qData[k] # series[k]

(***************************************************************************)
(* Connection test: claims.                                                *)
(***************************************************************************)
\* C26: in a connection test user.login comes right after an apiinfo.version
\* that succeeded.
C26_VersionBeforeLogin ==
  \A k \in 1..Len(cLog) :
    cLog[k].method = "user.login" =>
      /\ k > 1
      /\ cLog[k - 1].method = "apiinfo.version"
      /\ cLog[k - 1].err = Nil

\* C27: a connection test that is done reports success with the version
\* exactly when both exchanges succeeded; it reports no authentication
\* failure when an exchange failed in transport or with a status other than
\* 200, and it reports an authentication failure when user.login was
\* answered with an API error.
C27_ThreeOutcomes ==
  cPc = "done" =>
    /\ cOut.kind \in {"response", "error"}
    /\ cOut.kind = "response" <=>
         (Len(cLog) = 2 /\ \A k \in 1..Len(cLog) : cLog[k].err = Nil)
    /\ \A k \in 1..Len(cLog) :
         /\ cLog[k].kind \in {"transport", "status"} => cOut.prefix # "Authentication failed"
         /\ (cLog[k].method = "user.login" /\ cLog[k].kind = "error") =>
              cOut.prefix = "Authentication failed"

(***************************************************************************)
(* metricFindQuery: claims.                                                *)
(***************************************************************************)
\* C28: with n the number of dots of the query plus one, metricFindQuery
\* calls getGroups for n = 1, getHosts for n = 2, getApps for n = 3 and
\* getItems for n = 4, with n arguments, and for n > 4 it calls nothing and
\* resolves with the empty list.
C28_LevelFromSegments ==
  mCall # NoCall =>
    LET n == Cardinality({i \in 1..Len(mQuery) : mQuery[i] = "."}) + 1
    IN  /\ mCall.method = (CASE n = 1 -> "getGroups"
                             [] n = 2 -> "getHosts"
                             [] n = 3 -> "getApps"
                             [] n = 4 -> "getItems"
                             [] OTHER -> "none")
        /\ n <= 4 => Len(mCall.args) = n
        /\ n > 4 => (mCall.args = <<>> /\ mOut = <<>>)

\* C28, witness: the query of four dots made no call and resolved with the
\* empty list.
C28_FiveSegmentsNoCall ==
  /\ mQuery = <<".", ".", ".", ".">>
  /\ mCall.method = "none"
  /\ mOut = <<>>

(***************************************************************************)
(* GetAllItems: claims.                                                    *)
(***************************************************************************)
\* C29: the item.get request for a numeric target carries the value_type
\* filter 0, 3 and the one for a text target 1, 2, 4; a request for an
\* itemtype that is neither num nor text carries no value_type filter; and
\* what the server answers to the request holds items of the filter's
\* value types only.
C29_ItemKindInRequest ==
  iRequest # NoRequest =>
    /\ iRequest.method = "item.get"
    /\ iMode = 0 => (iType = "num" /\ iRequest.value_type = {"0", "3"})
    /\ iMode = 2 => (iType = "text" /\ iRequest.value_type = {"1", "2", "4"})
    /\ iType = "num" => iRequest.value_type = {"0", "3"}
    /\ iType = "text" => iRequest.value_type = {"1", "2", "4"}
    /\ iType \notin {"num", "text"} => iRequest.value_type = {}
    /\ iType \in {"num", "text"} =>
         \A k \in 1..Len(ServerResult(iRequest)) :
           ServerResult(iRequest)[k].value_type \in iRequest.value_type

\* C29, witness: the request for a numeric target on host 10, which holds a
\* numeric and a text item, asked for value types 0 and 3 and is answered
\* with the numeric item only.
C29_NumericTargetRequest ==
  /\ iMode = 0
  /\ iRequest.hostids = <<"10">>
  /\ iRequest.applicationids = <<>>
  /\ iRequest.value_type = {"0", "3"}
  /\ Len(ServerResult(iRequest)) = 1

(***************************************************************************)
(* annotationQuery: claims.                                                *)
(***************************************************************************)
\* The triggers getTriggers resolved with that are of the annotation's
\* minimum severity at least and whose description satisfies its trigger
\* filter: any description for the empty filter, a match for a /regex/,
\* equality otherwise.
PassingTriggers ==
  { t \in {aFetched[i] : i \in 1..Len(aFetched)} :
      /\ aAnnotation.minseverity # Undefined
      /\ t.priority >= aAnnotation.minseverity
      /\ \/ aAnnotation.trigger = ""
         \/ aAnnotation.trigger = "/^CPU/" /\ t.description \in {"CPU high", "CPU load"}
         \/ aAnnotation.trigger = t.description }

\* C30: every annotation returned carries the description of a trigger of
\* the minimum severity at least whose description satisfies the trigger
\* filter, and the objectids given to getEvents are the ids of exactly the
\* triggers that pass both.
C30_AnnotationsOfPassingTriggers ==
  /\ \A k \in 1..Len(aOut) :
       \E t \in PassingTriggers : t.description = aOut[k].text.description
  /\ aPc \in {"events", "done"} =>
       {aObjectIds[i] : i \in 1..Len(aObjectIds)} = {t.triggerid : t \in PassingTriggers}
  /\ aPc \notin {"events", "done"} => aOut = <<>>

\* C30, witness: with the filter /^CPU/ and the minimum severity 3 events
\* were asked for trigger 1 alone, of the three triggers fetched, and an
\* annotation of CPU high was returned.
C30_SevereCpuTriggerAnnotated ==
  /\ aPc = "done"
  /\ aAnnotation.trigger = "/^CPU/"
  /\ aAnnotation.minseverity = 3
  /\ aFetched = ServerTriggers
  /\ aObjectIds = <<"1">>
  /\ Len(aOut) >= 1
  /\ aOut[1].text.description = "CPU high"

C32_OnlySuccessCached ==
  /\ \A k \in Requests : queryCache[k].present => queryCache[k].value # Nil
  /\ \A p \in Procs : (pc[p] = "done" /\ hit[p]) => ret[p].kind = "response"

(***************************************************************************)
(* Panel query: further claims.                                            *)
(***************************************************************************)
\* C33: a launched numeric target is fetched from trends exactly when trends
\* are enabled and the from sent for its fetch is at or before now minus
\* trendsFrom, and from history otherwise.
C33_TrendsByFromSent ==
  \A i \in 1..Len(tState) :
    (Launched(tState[i]) /\ qTargets[i].mode = 0) =>
      /\ tFetch[i].kind \in {"trend", "history"}
      /\ tFetch[i].kind = "trend" <=>
           (qOpts.trends /\ tFetch[i].from <= NowSec - TrendsFromSec)

\* C34: a target that is hidden, or that has no group, host or item filter,
\* is never launched and contributes no series, and the query does not throw
\* because of it.
C34_SkippedTargetsHarmless ==
  /\ qState # "thrown"
  /\ \A i \in 1..Len(qTargets) :
       (qTargets[i].hide \/ qTargets[i].group = "undefined") =>
         (~Launched(tState[i]) /\ tSeries[i] = <<>>)

\* The place in the panel result before the first series of target i.
RECURSIVE SeriesBefore(_)
SeriesBefore(i) == IF i <= 1 THEN 0 ELSE SeriesBefore(i - 1) + Len(tSeries[i - 1])

\* C35: the panel result holds the targets' series target by target in the
\* order of options.targets, whichever target's fetch completed first.
C35_SeriesInTargetOrder ==
  qState = "resolved" =>
    /\ Len(qData) = SeriesBefore(Len(tSeries) + 1)
    /\ \A i \in 1..Len(tSeries) : \A k \in 1..Len(tSeries[i]) :
         qData[SeriesBefore(i) + k] = downsampleSeries(tSeries[i], qOpts)[k]

\* C35, witness: the second target's pipeline settled first, both targets
\* gave series, and the first series of the result is the first target's.
C35_SecondSettledFirst ==
  /\ qState = "resolved"
  /\ Len(qTargets) = 2
  /\ qFirst = 2
  /\ tSeries[1] # <<>>
  /\ tSeries[2] # <<>>
  /\ tSeries[1][1] # tSeries[2][1]
  /\ qData[1] = downsampleSeries(tSeries[1], qOpts)[1]

\* C36: after query has returned or thrown, the caller's options.targets are
\* what they were before the call: filters, textFilter and function
\* parameters.
C36_CallerTargetsUntouched ==
  kPc # "idle" => kAfter = kBefore

\* C36, witness: query returned after substituting template variables in the
\* group filter, the textFilter and a function parameter of a target it
\* worked on.
C36_VariablesSubstitutedInCopy ==
  /\ kPc = "returned"
  /\ \E i \in 1..Len(kBefore) :
       /\ kBefore[i].group.filter = "$group"
       /\ kWorked[i].group.filter = "/^Linux$/"
       /\ kBefore[i].textFilter = "$pattern"
       /\ kWorked[i].textFilter = "/^error$/"
       /\ Len(kBefore[i].functions) = 1
       /\ kBefore[i].functions[1].str = "$host cpu"
       /\ kWorked[i].functions[1].str = "web01 cpu"

(***************************************************************************)
(* ZabbixAPIService.request: the auth argument.                            *)
(***************************************************************************)
\* C37: a request called with the empty string as token makes no HTTP call
\* and its promise is rejected with {data: "Not authorised."}; a request
\* called with null or without a token is sent, without an auth field.
C37_EmptyTokenRejectedNullSent ==
  \A c \in Calls :
    /\ (sAuth[c] = "" /\ sCalls[c] # <<>>) =>
         /\ sHttp[c] = "none"
         /\ sSent[c] = NoRequestOptions
         /\ sDeferred[c] = [state |-> "rejected", kind |-> "data", value |-> "Not authorised."]
    /\ sAuth[c] \in {"<null>", "<absent>"} =>
         /\ sHttp[c] # "none"
         /\ ~sSent[c].hasAuth
         /\ sDeferred[c].kind # "data"

\* C37, witness: one request was called with the empty token and is
\* rejected, another with null and has been answered with a result.
C37_EmptyRejectedAndNullAnswered ==
  \E c, d \in Calls :
    /\ sAuth[c] = ""
    /\ sDeferred[c].state = "rejected"
    /\ sHttp[c] = "none"
    /\ sAuth[d] = "<null>"
    /\ sHttp[d] = "replied"
    /\ sDeferred[d].state = "resolved"

(***************************************************************************)
(* Session manager: the token held when ZabbixRequest returns.             *)
(***************************************************************************)
\* C38: when ZabbixRequest has returned a result without error a non-empty
\* token is held; when it has returned a not-authorized error, or the error
\* of a login, no token is held.
C38_TokenStateAfterReturn ==
  (pc["g1"] = "done" /\ ~hit["g1"] /\ Queries(req["g1"]) = "ok") =>
    /\ err["g1"] = Nil => authToken # ""
    /\ (err["g1"] # Nil /\ isNotAuthorized(err["g1"])) => authToken = ""
    /\ (err["g1"] # Nil /\ sends["g1"] = 0) => authToken = ""

====
